---- MODULE Spec2Model ----
(***************************************************************************)
(* Model of archspec-rs host detection: the microarchitecture graph        *)
(* (src/cpu/microarchitecture.rs) and TargetDetector::detect               *)
(* (src/cpu/detect.rs), one action per stage of detect.                    *)
(***************************************************************************)
EXTENDS Integers, Sequences, FiniteSets, TLC

VARIABLES
    os,                 \* TargetDetector.target_os, or consts::OS when unset
    target_arch,        \* TargetDetector.target_arch (NONE when unset)
    catalog,            \* which microarchitectures.json the build embeds
    compile_target,     \* compile-time target: consts::ARCH and endianness
    pc,                 \* position inside detect
    uname,              \* outcome of the uname query
    sysctl,             \* the sysctl provider of this run
    cpuinfo_src,        \* where cpu_info came from
    arch,               \* resolved architecture string (target_arch local)
    detected_arch,      \* the draft node
    compatible_targets, \* candidate names, in enumeration order
    best_generic,       \* best_generic_candidate
    best_candidates,    \* candidates that are strict supersets of best_generic
    result,             \* Ok(name) as the name, or Unsupported
    graph,              \* a graph built from a bounded catalog (method calls)
    call,               \* the Microarchitecture method called on it
    this,               \* the node the method is called on (self)
    arg,                \* the argument of a binary method (other)
    ret,                \* what the method returned
    thread_pc,          \* per thread: position in its calls
    cell_state,         \* KNOWN_TARGETS: "uninit", "running" or "complete"
    KNOWN_TARGETS,      \* the map the OnceLock holds once complete
    local_targets,      \* the local map known_microarchitectures fills
    keys,               \* schema.microarchitectures.keys(), in iteration order
    next_key,           \* position of the loop over keys
    stack,              \* frames of fill_target_from_map: << name, parent index >>
    inserted,           \* names in the order targets.insert was called
    observed,           \* per thread: the map known_targets() returned
    ancestors_state,    \* per node: "uninit", the initialising thread, "complete"
    ancestors_value,    \* per node: the list its OnceLock holds
    ancestors_stack,    \* per thread: nested ancestors() calls, innermost last
    ancestors_ret,      \* per thread: << node, list >> of its finished ancestors() call
    machine,            \* the CPUID answers of the host CPU (MachineCpuIdProvider)
    CPUID,              \* the OnceLock of CpuId::host: << >> or << snapshot >>
    cpuid_calls,        \* how many times CpuId::detect has queried the CPU
    snapshot,           \* the CpuId the latest detection or host() call used
    queried,            \* the flag leaves the latest CpuId::detect asked for
    detections,         \* detections and host() calls made so far
    reader,             \* the lines ProcCpuInfo::from_reader is given
    proc_cpu_info,      \* ProcCpuInfo.cpu_info after from_reader
    linux_draft,        \* detect_linux on that ProcCpuInfo
    parse_pc,           \* "idle", "text", "parsed" or "drafted"
    darwin_flags,       \* conversions.darwin_flags: macOS token -> canonical tokens
    probed,             \* the lower-cased tokens the two sysctl keys answered
    visit_order,        \* the order in which the HashMap yields the pairs
    expanded,           \* the draft feature set after the alias loop
    alias_pc            \* "idle", "probed" or "expanded"

detect_vars == << os, target_arch, catalog, compile_target, pc, uname, sysctl,
                  cpuinfo_src, arch, detected_arch, compatible_targets,
                  best_generic, best_candidates, result >>

graph_vars == << graph, call, this, arg, ret >>

once_vars == << thread_pc, cell_state, KNOWN_TARGETS, local_targets, keys,
               next_key, stack, inserted, observed, ancestors_state,
               ancestors_value, ancestors_stack, ancestors_ret >>

cpuid_vars == << machine, CPUID, cpuid_calls, snapshot, queried, detections >>

parse_vars == << reader, proc_cpu_info, linux_draft, parse_pc >>

alias_vars == << darwin_flags, probed, visit_order, expanded, alias_pc >>

\* what the actions of one specification leave alone
beyond_detect == << graph_vars, once_vars, cpuid_vars, parse_vars, alias_vars >>
beyond_graph == << detect_vars, once_vars, cpuid_vars, parse_vars, alias_vars >>
detect_locals == << os, target_arch, pc, uname, sysctl, cpuinfo_src, arch,
                    detected_arch, compatible_targets, best_generic,
                    best_candidates, result >>
beyond_once == << graph_vars, detect_locals, cpuid_vars, parse_vars, alias_vars >>
beyond_cpuid == << detect_vars, graph_vars, once_vars, parse_vars, alias_vars >>
beyond_parse == << detect_vars, graph_vars, once_vars, cpuid_vars, alias_vars >>
beyond_alias == << detect_vars, graph_vars, once_vars, cpuid_vars, parse_vars >>

vars == << detect_vars, graph_vars, once_vars, cpuid_vars, parse_vars, alias_vars >>

\* ---------------------------------------------------------------- bounds
MaxGeneration == 10

\* ---------------------------------------------------------------- values
NONE == "<none>"
ERR == "<io-error>"
\* None and Err for character-sequence values, None for numbers
NoneStr == << NONE >>
ErrStr == << ERR >>
NoneNum == -1
Pending == "<pending>"
Unsupported == "UnsupportedMicroarchitecture"

\* ---------------------------------------------------------------- sequences
SeqToSet(s) == { s[i] : i \in 1..Len(s) }

RECURSIVE SetToSeqs(_)
\* every enumeration order of a finite set
SetToSeqs(S) ==
    IF S = {} THEN { << >> }
    ELSE UNION { { <<x>> \o t : t \in SetToSeqs(S \ {x}) } : x \in S }

\* ---------------------------------------------------------------- strings
\* Strings whose content the code inspects are sequences of characters.
Lower(c) ==
    CASE c = "A" -> "a" [] c = "M" -> "m" [] c = "I" -> "i" [] c = "P" -> "p"
      [] c = "L" -> "l" [] c = "E" -> "e" [] OTHER -> c

to_lowercase(s) == [ i \in 1..Len(s) |-> Lower(s[i]) ]

contains(s, sub) ==
    \E i \in 0..(Len(s) - Len(sub)) :
        \A j \in 1..Len(sub) : s[i + j] = sub[j]

STR_Apple == << "A", "p", "p", "l", "e" >>
STR_apple == << "a", "p", "p", "l", "e" >>
STR_m1 == << "m", "1" >>
STR_m2 == << "m", "2" >>

BrandAppleM1 == << "A", "p", "p", "l", "e", " ", "M", "1" >>
BrandAppleM2 == << "A", "p", "p", "l", "e", " ", "M", "2" >>
BrandAppleA == << "A", "p", "p", "l", "e", " ", "A", "9" >>
BrandIntel == << "I", "n", "t", "e", "l", " ", "i", "7" >>
BrandLowerApple == << "a", "p", "p", "l", "e", " ", "m", "1" >>

\* ---------------------------------------------------------------- catalog
\* One entry of schema.microarchitectures (compiler hints carry no behaviour).
Entry(from, vendor, features, generation) ==
    [ from |-> from, vendor |-> vendor, features |-> features,
      generation |-> generation ]

\* Scenario A of the specification: exactly these four entries.
CatalogScenarioA ==
    [ n \in { "x86_64", "x86_64_v2", "x86_64_v3", "icelake" } |->
        CASE n = "x86_64"    -> Entry(<< >>, "generic", {}, 0)
          [] n = "x86_64_v2" -> Entry(<<"x86_64">>, "generic", {"sse", "sse2"}, 0)
          [] n = "x86_64_v3" -> Entry(<<"x86_64_v2">>, "generic", {"avx2"}, 0)
          [] n = "icelake"   -> Entry(<<"x86_64_v2">>, "GenuineIntel", {"avx"}, 0) ]

FullNames ==
    { "x86", "x86_64", "x86_64_v2", "x86_64_v3", "haswell", "broadwell",
      "zen", "zen2", "ppc64le", "power8le", "power9le", "ppc64",
      "power6", "aarch64", "armv8.1a", "cortex_a72", "m1", "m2", "riscv64",
      "u74mc" }

\* A catalog with every family: sibling nodes with equal sort keys, a node
\* with two parents, generation chains, vendor specific nodes.
CatalogFull ==
    [ n \in FullNames |->
        CASE n = "x86"        -> Entry(<< >>, "generic", {}, 0)
          [] n = "x86_64"     -> Entry(<< >>, "generic", {}, 0)
          [] n = "x86_64_v2"  -> Entry(<<"x86_64">>, "generic", {"sse", "sse2"}, 0)
          [] n = "x86_64_v3"  -> Entry(<<"x86_64_v2">>, "generic", {"avx2"}, 0)
          [] n = "haswell"    -> Entry(<<"x86_64_v2">>, "GenuineIntel", {"avx"}, 0)
          [] n = "broadwell"  -> Entry(<<"x86_64_v2">>, "GenuineIntel", {"avx"}, 0)
          [] n = "zen"        -> Entry(<<"x86_64_v2">>, "AuthenticAMD", {"avx"}, 0)
          [] n = "zen2"       -> Entry(<<"zen", "x86_64_v3">>, "AuthenticAMD", {"avx2"}, 0)
          [] n = "ppc64le"    -> Entry(<< >>, "generic", {}, 7)
          [] n = "power8le"   -> Entry(<<"ppc64le">>, "IBM", {}, 8)
          [] n = "power9le"   -> Entry(<<"power8le">>, "IBM", {}, 9)
          [] n = "ppc64"      -> Entry(<< >>, "generic", {}, 7)
          [] n = "power6"     -> Entry(<<"ppc64">>, "IBM", {}, 6)
          [] n = "aarch64"    -> Entry(<< >>, "generic", {}, 0)
          [] n = "armv8.1a"   -> Entry(<<"aarch64">>, "generic", {"fp"}, 0)
          [] n = "cortex_a72" -> Entry(<<"aarch64">>, "ARM", {"fp"}, 0)
          [] n = "m1"         -> Entry(<<"armv8.1a">>, "Apple", {"fp", "asimd"}, 0)
          [] n = "m2"         -> Entry(<<"m1">>, "Apple", {"fp", "asimd"}, 0)
          [] n = "riscv64"    -> Entry(<< >>, "generic", {}, 0)
          [] n = "u74mc"      -> Entry(<<"riscv64">>, "SiFive", {}, 0) ]

\* A catalog of the two POWER families whose roots carry generation 0, with
\* a generic node inside a generation chain.
CatalogPower ==
    [ n \in { "ppc64", "power7", "power8", "ppc64le", "power8le" } |->
        CASE n = "ppc64"    -> Entry(<< >>, "generic", {}, 0)
          [] n = "power7"   -> Entry(<<"ppc64">>, "generic", {}, 7)
          [] n = "power8"   -> Entry(<<"power7">>, "IBM", {}, 8)
          [] n = "ppc64le"  -> Entry(<< >>, "generic", {}, 0)
          [] n = "power8le" -> Entry(<<"ppc64le">>, "IBM", {}, 8) ]

\* A small catalog with a node that has two parents.
CatalogDiamond ==
    [ n \in { "x86_64", "x86_64_v3", "zen", "zen2" } |->
        CASE n = "x86_64"    -> Entry(<< >>, "generic", {}, 0)
          [] n = "x86_64_v3" -> Entry(<<"x86_64">>, "generic", {"avx2"}, 0)
          [] n = "zen"       -> Entry(<<"x86_64">>, "AuthenticAMD", {"avx"}, 0)
          [] n = "zen2"      -> Entry(<<"zen", "x86_64_v3">>, "AuthenticAMD", {"avx2"}, 0) ]

\* Two generic levels at the same depth, with two and with one own feature.
CatalogLevels ==
    [ n \in { "x86_64", "x86_64_v2", "x86_64_avx", "zen" } |->
        CASE n = "x86_64"     -> Entry(<< >>, "generic", {}, 0)
          [] n = "x86_64_v2"  -> Entry(<<"x86_64">>, "generic", {"sse", "sse2"}, 0)
          [] n = "x86_64_avx" -> Entry(<<"x86_64">>, "generic", {"avx"}, 0)
          [] n = "zen"        -> Entry(<<"x86_64_v2">>, "AuthenticAMD", {"avx"}, 0) ]

Catalogs == { "ScenarioA", "Full", "Power", "Levels" }

\* schema.microarchitectures of the embedded catalog
Microarchitectures(c) ==
    CASE c = "ScenarioA" -> CatalogScenarioA
      [] c = "Power"     -> CatalogPower
      [] c = "Diamond"   -> CatalogDiamond
      [] c = "Levels"    -> CatalogLevels
      [] OTHER           -> CatalogFull

\* conversions.arm_vendors: implementer code -> vendor name
ArmVendors == [ code \in { "0x41", "0x61" } |->
                  IF code = "0x41" THEN "ARM" ELSE "Apple" ]

\* ---------------------------------------------------------------- graph
\* A node; parents are held by name (names are unique keys of the map).
Node(name, parents, vendor, features, generation) ==
    [ name |-> name, parents |-> parents, vendor |-> vendor,
      features |-> features, generation |-> generation ]

\* Microarchitecture::generic
generic(name) == Node(name, << >>, "generic", {}, 0)

\* target_architecture_compiler
target_architecture_compiler(ct) ==
    IF ct.arch = "powerpc64" /\ ct.little_endian THEN "ppc64le"
    ELSE IF ct.arch = "powerpc64" THEN "ppc64"
    ELSE ct.arch

\* host_platform in known_microarchitectures
host_platform(ct) ==
    CASE ct.arch = "powerpc64"   -> "ppc64"
      [] ct.arch = "powerpc64le" -> "ppc64le"
      [] OTHER                   -> ct.arch

\* known_microarchitectures naming the host node with
\* target_architecture_compiler instead of host_platform
known_microarchitectures_compiler_name(c, ct) ==
    LET data == Microarchitectures(c)
        hp == target_architecture_compiler(ct)
    IN  [ n \in (DOMAIN data) \cup { hp } |->
            IF n \in DOMAIN data
            THEN Node(n, data[n].from, data[n].vendor, data[n].features,
                      data[n].generation)
            ELSE generic(hp) ]

\* known_microarchitectures: one node per catalog entry, then a generic node
\* for the host platform when the catalog has none.
known_microarchitectures(c, ct) ==
    LET data == Microarchitectures(c)
        hp == host_platform(ct)
    IN  [ n \in (DOMAIN data) \cup { hp } |->
            IF n \in DOMAIN data
            THEN Node(n, data[n].from, data[n].vendor, data[n].features,
                      data[n].generation)
            ELSE generic(hp) ]

known_targets == known_microarchitectures(catalog, compile_target)

RECURSIVE AncestorsFrom(_, _, _)
RECURSIVE AncestorsFrom_prepend(_, _, _)
RECURSIVE AncestorsFrom_unfiltered(_, _, _)
RECURSIVE ancestors(_, _)
\* the loop of ancestors() without the `!v.contains(a)` filter
AncestorsFrom_unfiltered(G, ps, v) ==
    IF ps = << >> THEN v
    ELSE LET pa == ancestors(G, Head(ps))
         IN  AncestorsFrom_unfiltered(G, Tail(ps), v \o pa)

\* the loop of ancestors() putting each parent's ancestors in front of v
AncestorsFrom_prepend(G, ps, v) ==
    IF ps = << >> THEN v
    ELSE LET pa == ancestors(G, Head(ps))
             new_ancestors == SelectSeq(pa, LAMBDA a : a \notin SeqToSet(v))
         IN  AncestorsFrom_prepend(G, Tail(ps), new_ancestors \o v)

\* the loop of ancestors(): for each parent in order, append those of its
\* ancestors that v does not hold yet
AncestorsFrom(G, ps, v) ==
    IF ps = << >> THEN v
    ELSE LET pa == ancestors(G, Head(ps))
             new_ancestors == SelectSeq(pa, LAMBDA a : a \notin SeqToSet(v))
         IN  AncestorsFrom(G, Tail(ps), v \o new_ancestors)

ancestors(G, n) == AncestorsFrom(G, G[n].parents, G[n].parents)

\* decendent_of looking at the direct parents only
decendent_of_direct(G, n, parent) ==
    \E i \in 1..Len(G[n].parents) : G[n].parents[i] = parent

RECURSIVE decendent_of(_, _, _)
decendent_of(G, n, parent) ==
    \E i \in 1..Len(G[n].parents) :
        G[n].parents[i] = parent \/ decendent_of(G, G[n].parents[i], parent)

\* node_set without the node's own name
node_set_without_self(G, n) == SeqToSet(ancestors(G, n))

node_set(G, n) == { n } \cup SeqToSet(ancestors(G, n))

is_superset(G, a, b) == node_set(G, b) \subseteq node_set(G, a)

\* is_strict_superset without the comparison of the names
is_strict_superset_same_name(G, a, b) == is_superset(G, a, b)

is_strict_superset(G, a, b) == is_superset(G, a, b) /\ a # b

\* family stopping at the first parent instead of following the chain
family_first_parent(G, n) ==
    IF G[n].parents = << >> THEN n ELSE Head(G[n].parents)

RECURSIVE family(_, _)
family(G, n) ==
    IF G[n].parents = << >> THEN n ELSE family(G, Head(G[n].parents))

\* all_features reading the own features of the direct parents only
all_features_parents_only(G, n) ==
    G[n].features \cup
    UNION { G[G[n].parents[i]].features : i \in 1..Len(G[n].parents) }

RECURSIVE all_features(_, _)
all_features(G, n) ==
    G[n].features \cup
    UNION { all_features(G, G[n].parents[i]) : i \in 1..Len(G[n].parents) }

\* compare_microarchitectures(a, b) is Less or Equal
KeyOf(G, n) == << Len(ancestors(G, n)), Cardinality(G[n].features) >>

compare_le(G, a, b) ==
    LET ka == KeyOf(G, a)
        kb == KeyOf(G, b)
    IN  ka[1] < kb[1] \/ (ka[1] = kb[1] /\ ka[2] <= kb[2])

RECURSIVE InsertSorted(_, _, _)
\* x goes after every element that does not compare greater (stable)
InsertSorted(G, s, x) ==
    IF s = << >> THEN << x >>
    ELSE IF compare_le(G, Head(s), x)
         THEN << Head(s) >> \o InsertSorted(G, Tail(s), x)
         ELSE << x >> \o s

RECURSIVE sorted_by(_, _)
\* itertools sorted_by: a stable sort by compare_microarchitectures
sorted_by(G, s) ==
    IF s = << >> THEN << >>
    ELSE InsertSorted(G, sorted_by(G, SubSeq(s, 1, Len(s) - 1)), s[Len(s)])

last(s) == IF s = << >> THEN NONE ELSE s[Len(s)]

\* ---------------------------------------------------------------- /proc/cpuinfo
\* ProcCpuInfo after parsing: the keys detect_linux reads; NONE = key absent.
\* flags and Features are held as the token sets split_ascii_whitespace gives
\* (an absent key reads as "", the empty set); cpu is a character sequence
\* (an absent key reads as "", the empty sequence).
CpuInfo(vendor_id, flags, implementer, Features, cpu, uarch) ==
    [ vendor_id |-> vendor_id, flags |-> flags, implementer |-> implementer,
      Features |-> Features, cpu |-> cpu, uarch |-> uarch ]

X86Features == { "sse", "sse2", "avx", "avx2" }
ArmFeatures == { "fp", "asimd" }

Digit(d) == CASE d = 0 -> "0" [] d = 1 -> "1" [] d = 2 -> "2" [] d = 3 -> "3"
              [] d = 4 -> "4" [] d = 5 -> "5" [] d = 6 -> "6" [] d = 7 -> "7"
              [] d = 8 -> "8" [] OTHER -> "9"

Decimal(g) == IF g < 10 THEN << Digit(g) >>
              ELSE << Digit(g \div 10), Digit(g % 10) >>

STR_POWER == << "P", "O", "W", "E", "R" >>

\* values of the cpu key: "POWER<g>", "POWER<g> (raw)", and some without a
\* generation
CpuStrings ==
    { STR_POWER \o Decimal(g) : g \in 0..MaxGeneration }
    \cup { STR_POWER \o Decimal(g) \o << " ", "(", "r", ")" >> : g \in 6..9 }
    \cup { STR_POWER, << "P", "P", "C", "9", "7", "0" >>,
           << "p", "o", "w", "e", "r", "9" >> }

CpuInfos ==
    { CpuInfo(v, f, NONE, {}, << >>, NONE) :
        v \in { NONE, "GenuineIntel", "AuthenticAMD" }, f \in SUBSET X86Features }
    \cup { CpuInfo(NONE, {}, i, f, << >>, NONE) :
        i \in { NONE, "0x41", "0x61", "0xff" }, f \in SUBSET ArmFeatures }
    \cup { CpuInfo(NONE, {}, NONE, {}, c, NONE) : c \in CpuStrings }
    \cup { CpuInfo(NONE, {}, NONE, {}, << >>, u) :
        u \in { NONE, "sifive,u74-mc", "u74mc", "rocket" } }

is_ascii_digit(c) ==
    c \in { "0", "1", "2", "3", "4", "5", "6", "7", "8", "9" }

DigitValue(c) == CHOOSE d \in 0..9 : Digit(d) = c

strip_prefix(s, prefix) ==
    IF Len(s) >= Len(prefix) /\ SubSeq(s, 1, Len(prefix)) = prefix
    THEN SubSeq(s, Len(prefix) + 1, Len(s))
    ELSE NoneStr

\* rest.split_once(|c| !c.is_ascii_digit()).map_or(rest, |(digits, _)| digits)
LeadingDigits(rest) ==
    IF \E i \in 1..Len(rest) : ~is_ascii_digit(rest[i])
    THEN LET i == CHOOSE k \in 1..Len(rest) :
                    /\ ~is_ascii_digit(rest[k])
                    /\ \A j \in 1..(k - 1) : is_ascii_digit(rest[j])
         IN  SubSeq(rest, 1, i - 1)
    ELSE rest

RECURSIVE DecimalValue(_)
DecimalValue(ds) ==
    IF ds = << >> THEN 0
    ELSE 10 * DecimalValue(SubSeq(ds, 1, Len(ds) - 1)) + DigitValue(ds[Len(ds)])

\* usize::MAX of the 64-bit targets, in decimal
UsizeMaxDigits ==
    << "1", "8", "4", "4", "6", "7", "4", "4", "0", "7", "3", "7", "0", "9", "5", "5", "1", "6", "1", "5" >>

RECURSIVE StripZeros(_)
StripZeros(ds) ==
    IF ds # << >> /\ ds[1] = "0" THEN StripZeros(Tail(ds)) ELSE ds

\* the digit string ds denotes a number above usize::MAX
OverflowsUsize(ds) ==
    LET sig == StripZeros(ds)
    IN  \/ Len(sig) > Len(UsizeMaxDigits)
        \/ /\ Len(sig) = Len(UsizeMaxDigits)
           /\ \E i \in 1..Len(sig) :
                /\ DigitValue(sig[i]) > DigitValue(UsizeMaxDigits[i])
                /\ \A j \in 1..(i - 1) : sig[j] = UsizeMaxDigits[j]

\* str::parse::<usize>: an error for the empty string, a non-digit, or a
\* number that does not fit usize
parse(ds) ==
    IF ds = << >> \/ \E i \in 1..Len(ds) : ~is_ascii_digit(ds[i])
    THEN NoneNum
    ELSE IF OverflowsUsize(ds) THEN NoneNum
    ELSE DecimalValue(ds)

\* the generation expression parsing everything after the prefix
PowerGeneration_whole_rest(cpu) ==
    LET rest == strip_prefix(cpu, STR_POWER)
        gen == IF rest = NoneStr THEN NoneNum ELSE parse(rest)
    IN  IF gen = NoneNum THEN 0 ELSE gen

\* the generation expression of detect_linux
PowerGeneration(cpu) ==
    LET rest == strip_prefix(cpu, STR_POWER)
        gen == IF rest = NoneStr THEN NoneNum ELSE parse(LeadingDigits(rest))
    IN  IF gen = NoneNum THEN 0 ELSE gen

unwrap_or(v, d) == IF v = NONE THEN d ELSE v

detect_linux(a, cpu_info) ==
    CASE a = "x86_64" ->
           Node("", << >>, unwrap_or(cpu_info.vendor_id, "generic"),
                cpu_info.flags, 0)
      [] a = "aarch64" ->
           LET vendor ==
                 IF cpu_info.implementer # NONE
                 THEN IF cpu_info.implementer \in DOMAIN ArmVendors
                      THEN ArmVendors[cpu_info.implementer]
                      ELSE "generic"
                 ELSE "generic"
           IN  Node("", << >>, vendor, cpu_info.Features, 0)
      [] a \in { "ppc64", "ppc64le" } ->
           Node("", << >>, "generic", {}, PowerGeneration(cpu_info.cpu))
      [] a = "riscv64" ->
           LET u == IF cpu_info.uarch = "sifive,u74-mc" THEN "u74mc"
                    ELSE IF cpu_info.uarch # NONE THEN cpu_info.uarch
                    ELSE "riscv64"
           IN  generic(u)
      [] OTHER -> generic(a)

\* ---------------------------------------------------------------- sysctl
\* A SysCtlProvider: the answer to each key detect asks for.  A failed lookup
\* is ErrStr (brand_string, a character sequence), ErrTokens (the token
\* lists) or ERR (the vendor).
SysCtl(brand_string, features, leaf7_features, vendor) ==
    [ brand_string |-> brand_string, features |-> features,
      leaf7_features |-> leaf7_features, vendor |-> vendor ]

\* a failed lookup of a token list
ErrTokens == { ERR }

NoSysCtl == SysCtl(NoneStr, { NONE }, { NONE }, NONE)

DarwinFeatureTokens == { "SSE2", "AVX1.0" }
DarwinLeaf7Tokens == { "AVX2" }

SysCtlProviders ==
    { SysCtl(BrandIntel, f, l, v) :
        f \in (SUBSET DarwinFeatureTokens) \cup { ErrTokens },
        l \in (SUBSET DarwinLeaf7Tokens) \cup { ErrTokens },
        v \in { "GenuineIntel", ERR } }
    \cup { SysCtl(b, ErrTokens, ErrTokens, ERR) :
        b \in { BrandAppleM1, BrandAppleM2, BrandAppleA, BrandLowerApple, ErrStr } }

\* String::to_lowercase on one whitespace separated token
LowerToken(t) ==
    CASE t = "SSE2" -> "sse2" [] t = "AVX1.0" -> "avx1.0"
      [] t = "AVX2" -> "avx2" [] OTHER -> t

\* sysctl(key).unwrap_or_default().to_lowercase().split_whitespace()
LowerTokens(answer) ==
    IF answer = ErrTokens THEN {} ELSE { LowerToken(t) : t \in answer }

\* conversions.darwin_flags: macOS token -> canonical tokens
DarwinFlags ==
    ("avx1.0" :> { "avx" }) @@ ("xsave" :> { "xsavec", "xsaveopt" })

RECURSIVE expand_aliases(_, _, _)
\* the alias loop of detect_macos over a table, its pairs visited in the given
\* order
expand_aliases(table, features, order) ==
    IF order = << >> THEN features
    ELSE expand_aliases(table,
                        IF Head(order) \in features
                        THEN features \cup table[Head(order)]
                        ELSE features,
                        Tail(order))

\* the alias loop of detect_macos, visiting the table in the given order
ExpandDarwinFlags(features, order) == expand_aliases(DarwinFlags, features, order)

\* detect_macos without the arm for brand strings that only hold "apple"
detect_macos_m1_m2_only(a, sc, order) ==
    IF a = "x86_64"
    THEN LET features == LowerTokens(sc.features) \cup LowerTokens(sc.leaf7_features)
             vendor == IF sc.vendor = ERR THEN "" ELSE sc.vendor
         IN  Node("", << >>, vendor, ExpandDarwinFlags(features, order), 0)
    ELSE LET b == sc.brand_string
             model ==
               CASE b # ErrStr /\ contains(to_lowercase(b), STR_m2) -> "m2"
                 [] b # ErrStr /\ ~contains(to_lowercase(b), STR_m2)
                      /\ contains(to_lowercase(b), STR_m1) -> "m1"
                 [] OTHER -> "unknown"
         IN  Node(model, << >>, "Apple", {}, 0)

detect_macos(a, sc, order) ==
    IF a = "x86_64"
    THEN LET features == LowerTokens(sc.features) \cup LowerTokens(sc.leaf7_features)
             vendor == IF sc.vendor = ERR THEN "" ELSE sc.vendor
         IN  Node("", << >>, vendor, ExpandDarwinFlags(features, order), 0)
    ELSE LET b == sc.brand_string
             model ==
               CASE b # ErrStr /\ contains(to_lowercase(b), STR_m2) -> "m2"
                 [] b # ErrStr /\ ~contains(to_lowercase(b), STR_m2)
                      /\ contains(to_lowercase(b), STR_m1) -> "m1"
                 [] b # ErrStr /\ ~contains(to_lowercase(b), STR_m2)
                      /\ ~contains(to_lowercase(b), STR_m1)
                      /\ contains(to_lowercase(b), STR_apple) -> "m1"
                 [] OTHER -> "unknown"
         IN  Node(model, << >>, "Apple", {}, 0)

\* ---------------------------------------------------------------- cpuid
\* A u32 is << bit 31, bits 30..0 >>.
U32(h, l) == << h, l >>

LeU32(a, b) == a[1] < b[1] \/ (a[1] = b[1] /\ a[2] <= b[2])

RECURSIVE Pow2(_)
Pow2(n) == IF n = 0 THEN 1 ELSE 2 * Pow2(n - 1)

\* register & (1 << bit) != 0
BitIsSet(r, bit) ==
    IF bit = 31 THEN r[1] = 1 ELSE (r[2] \div Pow2(bit)) % 2 = 1

Registers(eax, ebx, ecx, edx) ==
    [ eax |-> eax, ebx |-> ebx, ecx |-> ecx, edx |-> edx ]

Zero == U32(0, 0)

\* the little-endian bytes of one register
BytesOf(r) ==
    << r[2] % 256, (r[2] \div 256) % 256, (r[2] \div 65536) % 256,
       (r[2] \div 16777216) + 128 * r[1] >>

Pack(b0, b1, b2, b3) == U32(0, b0 + 256 * b1 + 65536 * b2 + 16777216 * b3)

AsciiGenuineIntel == << 71, 101, 110, 117, 105, 110, 101, 73, 110, 116, 101, 108 >>
AsciiAuthenticAMD == << 65, 117, 116, 104, 101, 110, 116, 105, 99, 65, 77, 68 >>

\* String::from_utf8_lossy of the twelve vendor bytes
VendorString(bytes) ==
    CASE bytes = AsciiGenuineIntel -> "GenuineIntel"
      [] bytes = AsciiAuthenticAMD -> "AuthenticAMD"
      [] OTHER -> "<other vendor>"

Leaf0 == << U32(0, 0), Zero >>
Leaf1 == << U32(0, 1), Zero >>
Leaf7 == << U32(0, 7), Zero >>
LeafExt0 == << U32(1, 0), Zero >>
LeafExt1 == << U32(1, 1), Zero >>

Bits(name, register, bit) == [ name |-> name, register |-> register, bit |-> bit ]

\* cpuid.json: leaf 0 holds the vendor, leaf 0x80000000 the highest extended
\* leaf; feature bits of leaves 1, 7 and 0x80000001.
CpuIdSchema ==
    [ vendor |-> Leaf0,
      highest_extension_support |-> LeafExt0,
      flags |-> << [ input |-> Leaf1,
                     bits |-> { Bits("sse", "edx", 25), Bits("sse2", "edx", 26),
                                Bits("avx", "ecx", 28) } ],
                   [ input |-> Leaf7,
                     bits |-> { Bits("avx2", "ebx", 5) } ] >>,
      extension_flags |-> << [ input |-> LeafExt1,
                               bits |-> { Bits("lahf_lm", "ecx", 0) } ] >> ]

\* A CpuIdProvider answering the leaves of the schema.
CpuIdProvider(highest_basic, v, edx1, ecx1, ebx7, highest_ext, ecxe) ==
    (Leaf0 :> Registers(U32(0, highest_basic), v[1], v[3], v[2]))
    @@ (Leaf1 :> Registers(Zero, Zero, U32(0, ecx1), U32(0, edx1)))
    @@ (Leaf7 :> Registers(Zero, U32(0, ebx7), Zero, Zero))
    @@ (LeafExt0 :> Registers(U32(1, highest_ext), Zero, Zero, Zero))
    @@ (LeafExt1 :> Registers(Zero, Zero, U32(0, ecxe), Zero))

VendorRegisters ==
    { << Pack(71, 101, 110, 117), Pack(105, 110, 101, 73), Pack(110, 116, 101, 108) >>,
      << Pack(65, 117, 116, 104), Pack(101, 110, 116, 105), Pack(99, 65, 77, 68) >> }

CpuIdProviders ==
    { CpuIdProvider(hb, v, edx1, ecx1, ebx7, he, ecxe) :
        hb \in { 0, 1, 7 }, v \in VendorRegisters,
        edx1 \in { 0, Pow2(25), Pow2(26), Pow2(25) + Pow2(26) },
        ecx1 \in { 0, Pow2(28) }, ebx7 \in { 0, Pow2(5) },
        he \in { 0, 1 }, ecxe \in { 0, 1 } }

RegisterOf(registers, register) ==
    CASE register = "eax" -> registers.eax
      [] register = "ebx" -> registers.ebx
      [] register = "ecx" -> registers.ecx
      [] OTHER            -> registers.edx

\* CpuId::detect reading every extension leaf of the schema, supported or not
CpuId_detect_every_extension(provider) ==
    LET schema == CpuIdSchema
        r0 == provider[schema.vendor]
        highest_basic_support == r0.eax
        vendor == VendorString(BytesOf(r0.ebx) \o BytesOf(r0.edx) \o BytesOf(r0.ecx))
        supported_flags ==
            SelectSeq(schema.flags,
                      LAMBDA f : LeU32(f.input[1], highest_basic_support))
        chain == supported_flags \o schema.extension_flags
        features ==
            UNION { { b.name : b \in { x \in chain[i].bits :
                        BitIsSet(RegisterOf(provider[chain[i].input], x.register), x.bit) } } :
                    i \in 1..Len(chain) }
    IN  [ vendor |-> vendor, features |-> features ]

\* CpuId::detect (the brand string is decoded too but detect never reads it)
CpuId_detect(provider) ==
    LET schema == CpuIdSchema
        r0 == provider[schema.vendor]
        highest_basic_support == r0.eax
        vendor == VendorString(BytesOf(r0.ebx) \o BytesOf(r0.edx) \o BytesOf(r0.ecx))
        highest_extension_support == provider[schema.highest_extension_support].eax
        supported_flags ==
            SelectSeq(schema.flags,
                      LAMBDA f : LeU32(f.input[1], highest_basic_support))
        supported_extensions ==
            SelectSeq(schema.extension_flags,
                      LAMBDA f : LeU32(f.input[1], highest_extension_support))
        chain == supported_flags \o supported_extensions
        features ==
            UNION { { b.name : b \in { x \in chain[i].bits :
                        BitIsSet(RegisterOf(provider[chain[i].input], x.register), x.bit) } } :
                    i \in 1..Len(chain) }
    IN  [ vendor |-> vendor, features |-> features ]

\* the (leaf, subleaf) inputs of the flag queries CpuId::detect issues, in order
CpuId_queries(provider) ==
    LET schema == CpuIdSchema
        highest_basic_support == provider[schema.vendor].eax
        highest_extension_support == provider[schema.highest_extension_support].eax
        supported_flags ==
            SelectSeq(schema.flags,
                      LAMBDA f : LeU32(f.input[1], highest_basic_support))
        supported_extensions ==
            SelectSeq(schema.extension_flags,
                      LAMBDA f : LeU32(f.input[1], highest_extension_support))
        chain == supported_flags \o supported_extensions
    IN  [ i \in 1..Len(chain) |-> chain[i].input ]

\* no draft node: detect has not built one, or the probe returned Err
NoDraft == Node(NONE, << >>, NONE, {}, 0)

\* detect_windows: a draft node, or NoDraft for Err(UnsupportedMicroarchitecture)
detect_windows(a, provider) ==
    CASE a \in { "x86_64", "x86" } ->
           LET cpuid == CpuId_detect(provider)
           IN  Node("", << >>, cpuid.vendor, cpuid.features, 0)
      [] a \in { "ppc64", "ppc64le", "aarch64", "riscv64" } -> generic(a)
      [] OTHER -> NoDraft

\* ---------------------------------------------------------------- candidates
\* the aarch64 filter rejecting every generic node, the root included
compatible_microarchitectures_for_aarch64_no_root(G, detected_info, is_macos) ==
    IF "aarch64" \notin DOMAIN G THEN {}
    ELSE IF is_macos /\ detected_info.name \notin DOMAIN G THEN {}
    ELSE { t \in DOMAIN G :
             /\ ~(G[t].vendor = "generic")
             /\ ~( family(G, t) # "aarch64"
                   \/ ~(G[t].vendor = "generic" \/ G[t].vendor = detected_info.vendor) )
             /\ IF is_macos
                THEN t = detected_info.name \/ decendent_of(G, detected_info.name, t)
                ELSE G[t].features \subseteq detected_info.features }

\* the aarch64 filter without its vendor test
compatible_microarchitectures_for_aarch64_any_vendor(G, detected_info, is_macos) ==
    IF "aarch64" \notin DOMAIN G THEN {}
    ELSE IF is_macos /\ detected_info.name \notin DOMAIN G THEN {}
    ELSE { t \in DOMAIN G :
             /\ ~(G[t].vendor = "generic" /\ t # "aarch64")
             /\ ~(family(G, t) # "aarch64")
             /\ IF is_macos
                THEN t = detected_info.name \/ decendent_of(G, detected_info.name, t)
                ELSE G[t].features \subseteq detected_info.features }

compatible_microarchitectures_for_aarch64(G, detected_info, is_macos) ==
    IF "aarch64" \notin DOMAIN G THEN {}
    ELSE IF is_macos /\ detected_info.name \notin DOMAIN G THEN {}
    ELSE { t \in DOMAIN G :
             /\ ~(G[t].vendor = "generic" /\ t # "aarch64")
             /\ ~( family(G, t) # "aarch64"
                   \/ ~(G[t].vendor = "generic" \/ G[t].vendor = detected_info.vendor) )
             /\ IF is_macos
                THEN t = detected_info.name \/ decendent_of(G, detected_info.name, t)
                ELSE G[t].features \subseteq detected_info.features }

\* the ppc64 filter without its generation test
compatible_microarchitectures_for_ppc64_any_generation(G, detected_info, little_endian) ==
    LET root_arch == IF little_endian THEN "ppc64le" ELSE "ppc64"
    IN  IF root_arch \notin DOMAIN G THEN {}
        ELSE { t \in DOMAIN G : t = root_arch \/ decendent_of(G, t, root_arch) }

compatible_microarchitectures_for_ppc64(G, detected_info, little_endian) ==
    LET root_arch == IF little_endian THEN "ppc64le" ELSE "ppc64"
    IN  IF root_arch \notin DOMAIN G THEN {}
        ELSE { t \in DOMAIN G :
                 /\ (t = root_arch \/ decendent_of(G, t, root_arch))
                 /\ G[t].generation <= detected_info.generation }

\* the x86_64 filter with the subset test the wrong way round
compatible_microarchitectures_for_x86_64_reversed(G, detected_info) ==
    IF "x86_64" \notin DOMAIN G THEN {}
    ELSE { t \in DOMAIN G :
             /\ (t = "x86_64" \/ decendent_of(G, t, "x86_64"))
             /\ (G[t].vendor = detected_info.vendor \/ G[t].vendor = "generic")
             /\ detected_info.features \subseteq G[t].features }

compatible_microarchitectures_for_x86_64(G, detected_info) ==
    IF "x86_64" \notin DOMAIN G THEN {}
    ELSE { t \in DOMAIN G :
             /\ (t = "x86_64" \/ decendent_of(G, t, "x86_64"))
             /\ (G[t].vendor = detected_info.vendor \/ G[t].vendor = "generic")
             /\ G[t].features \subseteq detected_info.features }

compatible_microarchitectures_for_riscv64(G, detected_info) ==
    IF "riscv64" \notin DOMAIN G THEN {}
    ELSE { t \in DOMAIN G :
             /\ (t = "riscv64" \/ decendent_of(G, t, "riscv64"))
             /\ (t = detected_info.name \/ G[t].vendor = "generic") }

\* the match on target_arch with a fallback arm that looks the name up
CompatibleSet_fallback(G, a, o, detected_info) ==
    CASE a = "aarch64" ->
           compatible_microarchitectures_for_aarch64(G, detected_info, o = "macos")
      [] a \in { "ppc64", "ppc64le" } ->
           compatible_microarchitectures_for_ppc64(G, detected_info, a = "ppc64le")
      [] a = "riscv64" ->
           compatible_microarchitectures_for_riscv64(G, detected_info)
      [] a \in { "x86_64", "x86" } ->
           compatible_microarchitectures_for_x86_64(G, detected_info)
      [] OTHER -> { a } \cap DOMAIN G

\* the match on target_arch in detect; the Vec holds this set in the
\* iteration order of the known_targets HashMap
CompatibleSet(G, a, o, detected_info) ==
    CASE a = "aarch64" ->
           compatible_microarchitectures_for_aarch64(G, detected_info, o = "macos")
      [] a \in { "ppc64", "ppc64le" } ->
           compatible_microarchitectures_for_ppc64(G, detected_info, a = "ppc64le")
      [] a = "riscv64" ->
           compatible_microarchitectures_for_riscv64(G, detected_info)
      [] a \in { "x86_64", "x86" } ->
           compatible_microarchitectures_for_x86_64(G, detected_info)
      [] OTHER -> {}

\* best_generic_candidate without the vendor filter
BestGeneric_any_vendor(G, targets) == last(sorted_by(G, targets))

\* best_generic_candidate taking the first node of the sorted list
BestGeneric_first(G, targets) ==
    LET s == sorted_by(G, SelectSeq(targets, LAMBDA t : G[t].vendor = "generic"))
    IN  IF s = << >> THEN NONE ELSE s[1]

\* best_generic_candidate, NONE when there is none
BestGeneric(G, targets) ==
    last(sorted_by(G, SelectSeq(targets, LAMBDA t : G[t].vendor = "generic")))

\* best_candidates with the arguments of is_strict_superset swapped
BestCandidates_swapped(G, targets, generic_candidate) ==
    SelectSeq(targets, LAMBDA t : is_strict_superset(G, generic_candidate, t))

\* best_candidates without the filter
BestCandidates_unfiltered(G, targets, generic_candidate) == targets

\* best_candidates
BestCandidates(G, targets, generic_candidate) ==
    SelectSeq(targets, LAMBDA t : is_strict_superset(G, t, generic_candidate))

\* the value detect returns once best_generic_candidate exists
FinalChoice(G, candidates, generic_candidate) ==
    IF candidates = << >> THEN generic_candidate
    ELSE last(sorted_by(G, candidates))

\* ---------------------------------------------------------------- detect
OperatingSystems == { "linux", "macos", "windows", "freebsd" }

TargetArchs ==
    { NONE, "x86_64", "x86", "aarch64", "ppc64", "ppc64le", "riscv64", "sparc64" }

CompileTargets ==
    { [ arch |-> "x86_64", little_endian |-> TRUE ],
      [ arch |-> "powerpc64", little_endian |-> TRUE ],
      [ arch |-> "sparc64", little_endian |-> FALSE ] }

\* what target_architecture_uname can return
UnameResults == { ERR, "x86_64", "aarch64", "ppc64le", "riscv64", "i686" }

\* the variables of the method-call specification, unused
GraphIdle ==
    /\ graph = << >>
    /\ call = NONE
    /\ this = 0
    /\ arg = 0
    /\ ret = NONE

\* the process-wide cells, untouched
OnceIdle ==
    /\ thread_pc = << >>
    /\ cell_state = "uninit"
    /\ KNOWN_TARGETS = << >>
    /\ local_targets = << >>
    /\ keys = << >>
    /\ next_key = 1
    /\ stack = << >>
    /\ inserted = << >>
    /\ observed = << >>
    /\ ancestors_state = << >>
    /\ ancestors_value = << >>
    /\ ancestors_stack = << >>
    /\ ancestors_ret = << >>

\* no CPUID query made yet
CpuIdIdle ==
    /\ machine = << >>
    /\ CPUID = << >>
    /\ cpuid_calls = 0
    /\ snapshot = << >>
    /\ queried = << >>
    /\ detections = 0

\* no cpu-info text read yet
ParseIdle ==
    /\ reader = << >>
    /\ proc_cpu_info = << >>
    /\ linux_draft = NoDraft
    /\ parse_pc = "idle"

\* no alias expansion under way
AliasIdle ==
    /\ darwin_flags = << >>
    /\ probed = {}
    /\ visit_order = << >>
    /\ expanded = {}
    /\ alias_pc = "idle"

\* the locals of detect, outside a detection
DetectIdle ==
    /\ os = "linux"
    /\ target_arch = NONE
    /\ pc = "idle"
    /\ uname = NONE
    /\ sysctl = NoSysCtl
    /\ cpuinfo_src = NONE
    /\ arch = NONE
    /\ detected_arch = NoDraft
    /\ compatible_targets = << >>
    /\ best_generic = NONE
    /\ best_candidates = << >>
    /\ result = Pending

Init ==
    /\ os \in OperatingSystems
    /\ target_arch \in TargetArchs
    /\ catalog \in Catalogs
    /\ compile_target \in CompileTargets
    /\ pc = "start"
    /\ uname = NONE
    /\ sysctl = NoSysCtl
    /\ cpuinfo_src = NONE
    /\ arch = NONE
    /\ detected_arch = NoDraft
    /\ compatible_targets = << >>
    /\ best_generic = NONE
    /\ best_candidates = << >>
    /\ result = Pending
    /\ GraphIdle
    /\ OnceIdle
    /\ CpuIdIdle
    /\ ParseIdle
    /\ AliasIdle

Fail ==
    /\ pc' = "done"
    /\ result' = Unsupported

\* ("linux" | "windows", Some(arch))
ResolveExplicit ==
    /\ pc = "start"
    /\ os \in { "linux", "windows" }
    /\ target_arch # NONE
    /\ arch' = target_arch
    /\ pc' = "resolved"
    /\ UNCHANGED << beyond_detect,
                    os, target_arch, catalog, compile_target, uname, sysctl,
                    cpuinfo_src, detected_arch, compatible_targets,
                    best_generic, best_candidates, result >>

\* ("linux", None): the uname query
ResolveUname ==
    /\ pc = "start"
    /\ os = "linux"
    /\ target_arch = NONE
    /\ \E u \in UnameResults :
         /\ uname' = u
         /\ IF u = ERR
            THEN Fail /\ UNCHANGED arch
            ELSE arch' = u /\ pc' = "resolved" /\ UNCHANGED result
    /\ UNCHANGED << beyond_detect,
                    os, target_arch, catalog, compile_target, sysctl,
                    cpuinfo_src, detected_arch, compatible_targets,
                    best_generic, best_candidates >>

\* ("macos", _): the brand string decides, whatever target_arch says
ResolveMacos ==
    /\ pc = "start"
    /\ os = "macos"
    /\ \E sc \in SysCtlProviders :
         /\ sysctl' = sc
         /\ arch' = IF contains(IF sc.brand_string = ErrStr THEN << >>
                                ELSE sc.brand_string, STR_Apple)
                    THEN "aarch64" ELSE "x86_64"
    /\ pc' = "resolved"
    /\ UNCHANGED << beyond_detect,
                    os, target_arch, catalog, compile_target, uname,
                    cpuinfo_src, detected_arch, compatible_targets,
                    best_generic, best_candidates, result >>

\* every other (os, target_arch): the compile-time architecture
ResolveCompiler ==
    /\ pc = "start"
    /\ ~(os \in { "linux", "windows" } /\ target_arch # NONE)
    /\ ~(os = "linux" /\ target_arch = NONE)
    /\ os # "macos"
    /\ arch' = target_architecture_compiler(compile_target)
    /\ pc' = "resolved"
    /\ UNCHANGED << beyond_detect,
                    os, target_arch, catalog, compile_target, uname, sysctl,
                    cpuinfo_src, detected_arch, compatible_targets,
                    best_generic, best_candidates, result >>

\* "linux": cpu_info injected, or read from /proc/cpuinfo, or the read fails
ProbeLinux ==
    /\ pc = "resolved"
    /\ os = "linux"
    /\ \/ /\ \E src \in { "injected", "procfile" } : cpuinfo_src' = src
          /\ \E cpu_info \in CpuInfos :
               detected_arch' = detect_linux(arch, cpu_info)
          /\ pc' = "drafted"
          /\ UNCHANGED result
       \/ /\ cpuinfo_src' = "failed"
          /\ Fail
          /\ UNCHANGED detected_arch
    /\ UNCHANGED << beyond_detect,
                    os, target_arch, catalog, compile_target, uname, sysctl,
                    arch, compatible_targets, best_generic, best_candidates >>

\* "macos"
ProbeMacos ==
    /\ pc = "resolved"
    /\ os = "macos"
    /\ \E order \in SetToSeqs(DOMAIN DarwinFlags) :
         detected_arch' = detect_macos(arch, sysctl, order)
    /\ pc' = "drafted"
    /\ UNCHANGED << beyond_detect,
                    os, target_arch, catalog, compile_target, uname, sysctl,
                    cpuinfo_src, arch, compatible_targets, best_generic,
                    best_candidates, result >>

\* "windows"
ProbeWindows ==
    /\ pc = "resolved"
    /\ os = "windows"
    /\ \E provider \in CpuIdProviders :
         LET d == detect_windows(arch, provider)
         IN  IF d = NoDraft
             THEN Fail /\ UNCHANGED detected_arch
             ELSE detected_arch' = d /\ pc' = "drafted" /\ UNCHANGED result
    /\ UNCHANGED << beyond_detect,
                    os, target_arch, catalog, compile_target, uname, sysctl,
                    cpuinfo_src, arch, compatible_targets, best_generic,
                    best_candidates >>

\* any other operating system
ProbeOther ==
    /\ pc = "resolved"
    /\ os \notin { "linux", "macos", "windows" }
    /\ Fail
    /\ UNCHANGED << beyond_detect,
                    os, target_arch, catalog, compile_target, uname, sysctl,
                    cpuinfo_src, arch, detected_arch, compatible_targets,
                    best_generic, best_candidates >>

\* compatible_targets, in some iteration order of the HashMap
Compatible ==
    /\ pc = "drafted"
    /\ compatible_targets' \in
         SetToSeqs(CompatibleSet(known_targets, arch, os, detected_arch))
    /\ pc' = "compatible"
    /\ UNCHANGED << beyond_detect,
                    os, target_arch, catalog, compile_target, uname, sysctl,
                    cpuinfo_src, arch, detected_arch, best_generic,
                    best_candidates, result >>

\* best_generic_candidate, or Err when no candidate is generic
SelectGeneric ==
    /\ pc = "compatible"
    /\ LET g == BestGeneric(known_targets, compatible_targets)
       IN  IF g = NONE
           THEN Fail /\ UNCHANGED best_generic
           ELSE best_generic' = g /\ pc' = "generic" /\ UNCHANGED result
    /\ UNCHANGED << beyond_detect,
                    os, target_arch, catalog, compile_target, uname, sysctl,
                    cpuinfo_src, arch, detected_arch, compatible_targets,
                    best_candidates >>

\* best_candidates and the returned node
SelectBest ==
    /\ pc = "generic"
    /\ best_candidates' =
         BestCandidates(known_targets, compatible_targets, best_generic)
    /\ result' = FinalChoice(known_targets, best_candidates', best_generic)
    /\ pc' = "done"
    /\ UNCHANGED << beyond_detect,
                    os, target_arch, catalog, compile_target, uname, sysctl,
                    cpuinfo_src, arch, detected_arch, compatible_targets,
                    best_generic >>

Next ==
    \/ ResolveExplicit
    \/ ResolveUname
    \/ ResolveMacos
    \/ ResolveCompiler
    \/ ProbeLinux
    \/ ProbeMacos
    \/ ProbeWindows
    \/ ProbeOther
    \/ Compatible
    \/ SelectGeneric
    \/ SelectBest

Spec == Init /\ [][Next]_vars

\* ---------------------------------------------------------------- graph methods
\* The methods of Microarchitecture, called on graphs built from bounded
\* catalogs: entries are named 1..MaxNodes, and the `from` list of an entry
\* names up to two distinct entries among the two defined just before it, so
\* that every catalog is acyclic (fill_target_from_map resolves parents first).
MaxNodes == 6

\* detections made in one process
MaxDetections == 3

\* lines of a cpu-info text
MaxLines == 3

\* pairs of an alias table
MaxAliases == 2

GraphNames == 1..MaxNodes

FromLists(n) ==
    LET before == { m \in GraphNames : m < n /\ n <= m + 2 }
    IN  { << >> } \cup { << p >> : p \in before }
        \cup { pq \in before \X before : pq[1] # pq[2] }

RECURSIVE CatalogsUpTo(_)
\* the `from` lists of entries 1..n, as a sequence indexed by entry name
CatalogsUpTo(n) ==
    IF n = 0 THEN { << >> }
    ELSE { Append(c, f) : c \in CatalogsUpTo(n - 1), f \in FromLists(n) }

\* fill_target_from_map over such a catalog: entry n owns the one feature n
GraphOf(c) ==
    [ n \in DOMAIN c |-> Node(n, c[n], "generic", { n }, 0) ]

GraphInit ==
    /\ graph \in { GraphOf(c) : c \in CatalogsUpTo(MaxNodes) }
    /\ call = NONE
    /\ this = 0
    /\ arg = 0
    /\ ret = NONE
    /\ os = "linux"
    /\ target_arch = NONE
    /\ catalog = "ScenarioA"
    /\ compile_target = [ arch |-> "x86_64", little_endian |-> TRUE ]
    /\ pc = "graph"
    /\ uname = NONE
    /\ sysctl = NoSysCtl
    /\ cpuinfo_src = NONE
    /\ arch = NONE
    /\ detected_arch = NoDraft
    /\ compatible_targets = << >>
    /\ best_generic = NONE
    /\ best_candidates = << >>
    /\ result = Pending
    /\ OnceIdle
    /\ CpuIdIdle
    /\ ParseIdle
    /\ AliasIdle

\* n.ancestors()
CallAncestors ==
    /\ call = NONE
    /\ \E n \in DOMAIN graph :
         /\ this' = n
         /\ ret' = ancestors(graph, n)
    /\ call' = "ancestors"
    /\ UNCHANGED << beyond_graph, graph, arg >>

\* n.family()
CallFamily ==
    /\ call = NONE
    /\ \E n \in DOMAIN graph :
         /\ this' = n
         /\ ret' = family(graph, n)
    /\ call' = "family"
    /\ UNCHANGED << beyond_graph, graph, arg >>

\* n.all_features()
CallAllFeatures ==
    /\ call = NONE
    /\ \E n \in DOMAIN graph :
         /\ this' = n
         /\ ret' = all_features(graph, n)
    /\ call' = "all_features"
    /\ UNCHANGED << beyond_graph, graph, arg >>

\* a.is_superset(b)
CallIsSuperset ==
    /\ call = NONE
    /\ \E a \in DOMAIN graph, b \in DOMAIN graph :
         /\ this' = a
         /\ arg' = b
         /\ ret' = is_superset(graph, a, b)
    /\ call' = "is_superset"
    /\ UNCHANGED << beyond_graph, graph >>

\* a.is_strict_superset(b)
CallIsStrictSuperset ==
    /\ call = NONE
    /\ \E a \in DOMAIN graph, b \in DOMAIN graph :
         /\ this' = a
         /\ arg' = b
         /\ ret' = is_strict_superset(graph, a, b)
    /\ call' = "is_strict_superset"
    /\ UNCHANGED << beyond_graph, graph >>

\* a.decendent_of(b)
CallDecendentOf ==
    /\ call = NONE
    /\ \E a \in DOMAIN graph, b \in DOMAIN graph :
         /\ this' = a
         /\ arg' = b
         /\ ret' = decendent_of(graph, a, b)
    /\ call' = "decendent_of"
    /\ UNCHANGED << beyond_graph, graph >>

GraphNext ==
    \/ CallAncestors
    \/ CallFamily
    \/ CallAllFeatures
    \/ CallIsSuperset
    \/ CallIsStrictSuperset
    \/ CallDecendentOf

GraphSpec == GraphInit /\ [][GraphNext]_vars

\* ---------------------------------------------------------------- process-wide cells
\* Threads of one process calling known_targets() and then ancestors() on a
\* node. KNOWN_TARGETS and the ancestors field of every node are OnceLocks.
Threads == { "t1", "t2" }

\* catalogs small enough to follow the construction step by step
OnceCatalogs == { "ScenarioA", "Diamond" }

\* the map m with key k bound to v (HashMap::insert)
Put(m, k, v) == [ x \in (DOMAIN m) \cup { k } |-> IF x = k THEN v ELSE m[x] ]

\* OnceLock::get_or_init with the lock held by a caller that shares the
\* value under construction instead of waiting for it
get_or_init_unsynchronised(state, value, in_progress) ==
    CASE state = "complete" -> [ outcome |-> "value", value |-> value ]
      [] state = "uninit"   -> [ outcome |-> "init", value |-> << >> ]
      [] OTHER              -> [ outcome |-> "value", value |-> in_progress ]

\* OnceLock::get_or_init as a caller meets it: the stored value once the cell
\* is complete; the caller runs the initialiser when the cell is untouched;
\* the caller blocks while another thread runs the initialiser
get_or_init(state, value, in_progress) ==
    CASE state = "complete" -> [ outcome |-> "value", value |-> value ]
      [] state = "uninit"   -> [ outcome |-> "init", value |-> << >> ]
      [] OTHER              -> [ outcome |-> "block", value |-> << >> ]

\* fill_target_from_map recursing into every parent, present in targets or not
fill_target_from_map_no_lookup(data, targets, frames) ==
    LET top == frames[Len(frames)]
        name == top[1]
        i == top[2]
        parent_names == data[name].from
        outer == SubSeq(frames, 1, Len(frames) - 1)
    IN  IF i <= Len(parent_names)
        THEN [ targets |-> targets,
               frames |-> outer \o << << name, i + 1 >>, << parent_names[i], 1 >> >>,
               insert |-> << >> ]
        ELSE [ targets |-> Put(targets, name,
                               Node(name, parent_names, data[name].vendor,
                                    data[name].features, data[name].generation)),
               frames |-> outer,
               insert |-> << name >> ]

\* one step of fill_target_from_map on the innermost frame << name, i >>:
\* look at parent i (recursing into it when targets lacks it), or, past the
\* last parent, build the node and insert it
fill_target_from_map(data, targets, frames) ==
    LET top == frames[Len(frames)]
        name == top[1]
        i == top[2]
        parent_names == data[name].from
        outer == SubSeq(frames, 1, Len(frames) - 1)
    IN  IF i <= Len(parent_names)
        THEN [ targets |-> targets,
               frames |-> IF parent_names[i] \in DOMAIN targets
                          THEN Append(outer, << name, i + 1 >>)
                          ELSE outer \o << << name, i + 1 >>, << parent_names[i], 1 >> >>,
               insert |-> << >> ]
        ELSE [ targets |-> Put(targets, name,
                               Node(name, parent_names, data[name].vendor,
                                    data[name].features, data[name].generation)),
               frames |-> outer,
               insert |-> << name >> ]

OnceInit ==
    /\ catalog \in OnceCatalogs
    /\ compile_target \in CompileTargets
    /\ thread_pc = [ t \in Threads |-> "start" ]
    /\ cell_state = "uninit"
    /\ KNOWN_TARGETS = << >>
    /\ local_targets = << >>
    /\ keys = << >>
    /\ next_key = 1
    /\ stack = << >>
    /\ inserted = << >>
    /\ observed = [ t \in Threads |-> << >> ]
    /\ ancestors_state = [ n \in DOMAIN known_targets |-> "uninit" ]
    /\ ancestors_value = [ n \in DOMAIN known_targets |-> << >> ]
    /\ ancestors_stack = [ t \in Threads |-> << >> ]
    /\ ancestors_ret = [ t \in Threads |-> << >> ]
    /\ DetectIdle
    /\ GraphIdle
    /\ CpuIdIdle
    /\ ParseIdle
    /\ AliasIdle

\* KNOWN_TARGETS.get_or_init(known_microarchitectures), up to the first step
\* of the initialiser
CallKnownTargets(t) ==
    /\ thread_pc[t] = "start"
    /\ LET r == get_or_init(cell_state, KNOWN_TARGETS, local_targets)
       IN  CASE r.outcome = "value" ->
                  /\ observed' = [ observed EXCEPT ![t] = r.value ]
                  /\ thread_pc' = [ thread_pc EXCEPT ![t] = "ready" ]
                  /\ UNCHANGED << cell_state, keys >>
             [] r.outcome = "init" ->
                  /\ cell_state' = "running"
                  /\ keys' \in SetToSeqs(DOMAIN Microarchitectures(catalog))
                  /\ thread_pc' = [ thread_pc EXCEPT ![t] = "init" ]
                  /\ UNCHANGED observed
             [] OTHER ->
                  /\ thread_pc' = [ thread_pc EXCEPT ![t] = "blocked" ]
                  /\ UNCHANGED << cell_state, keys, observed >>
    /\ UNCHANGED << beyond_once, catalog, compile_target, KNOWN_TARGETS,
                    local_targets, next_key, stack, inserted, ancestors_state,
                    ancestors_value, ancestors_stack, ancestors_ret >>

\* a blocked caller returns once the initialiser has stored the map
Wake(t) ==
    /\ thread_pc[t] = "blocked"
    /\ cell_state = "complete"
    /\ observed' = [ observed EXCEPT ![t] = KNOWN_TARGETS ]
    /\ thread_pc' = [ thread_pc EXCEPT ![t] = "ready" ]
    /\ UNCHANGED << beyond_once, catalog, compile_target, cell_state,
                    KNOWN_TARGETS, local_targets, keys, next_key, stack,
                    inserted, ancestors_state, ancestors_value,
                    ancestors_stack, ancestors_ret >>

\* for name in schema.microarchitectures.keys(): call fill_target_from_map
\* unless known_targets holds the name
NextKey(t) ==
    /\ thread_pc[t] = "init"
    /\ stack = << >>
    /\ next_key <= Len(keys)
    /\ next_key' = next_key + 1
    /\ stack' = IF keys[next_key] \in DOMAIN local_targets
                THEN << >>
                ELSE << << keys[next_key], 1 >> >>
    /\ UNCHANGED << beyond_once, catalog, compile_target, thread_pc,
                    cell_state, KNOWN_TARGETS, local_targets, keys, inserted,
                    observed, ancestors_state, ancestors_value,
                    ancestors_stack, ancestors_ret >>

\* fill_target_from_map, one step
FillTarget(t) ==
    /\ thread_pc[t] = "init"
    /\ stack # << >>
    /\ LET r == fill_target_from_map(Microarchitectures(catalog),
                                     local_targets, stack)
       IN  /\ local_targets' = r.targets
           /\ stack' = r.frames
           /\ inserted' = inserted \o r.insert
    /\ UNCHANGED << beyond_once, catalog, compile_target, thread_pc,
                    cell_state, KNOWN_TARGETS, keys, next_key, observed,
                    ancestors_state, ancestors_value, ancestors_stack,
                    ancestors_ret >>

\* known_targets.entry(host_platform).or_insert_with(generic(host_platform))
HostPlatform(t) ==
    /\ thread_pc[t] = "init"
    /\ stack = << >>
    /\ next_key > Len(keys)
    /\ LET hp == host_platform(compile_target)
       IN  local_targets' = IF hp \in DOMAIN local_targets
                            THEN local_targets
                            ELSE Put(local_targets, hp, generic(hp))
    /\ thread_pc' = [ thread_pc EXCEPT ![t] = "built" ]
    /\ UNCHANGED << beyond_once, catalog, compile_target, cell_state,
                    KNOWN_TARGETS, keys, next_key, stack, inserted, observed,
                    ancestors_state, ancestors_value, ancestors_stack,
                    ancestors_ret >>

\* known_microarchitectures returns its local map and get_or_init stores it
Publish(t) ==
    /\ thread_pc[t] = "built"
    /\ KNOWN_TARGETS' = local_targets
    /\ cell_state' = "complete"
    /\ observed' = [ observed EXCEPT ![t] = local_targets ]
    /\ thread_pc' = [ thread_pc EXCEPT ![t] = "ready" ]
    /\ local_targets' = << >>
    /\ keys' = << >>
    /\ next_key' = 1
    /\ UNCHANGED << beyond_once, catalog, compile_target, stack, inserted,
                    ancestors_state, ancestors_value, ancestors_stack,
                    ancestors_ret >>

\* the ancestors cell of node n of map G, as a thread calling n.ancestors()
\* meets it; the list under construction starts as parents.clone()
AncestorsCell(G, n) ==
    get_or_init(IF ancestors_state[n] \in Threads
                THEN "running" ELSE ancestors_state[n],
                ancestors_value[n], G[n].parents)

RECURSIVE AncestorsFromCells(_, _, _)
\* the loop of ancestors() reading each parent's list through its cell
AncestorsFromCells(G, ps, v) ==
    IF ps = << >> THEN v
    ELSE LET pa == AncestorsCell(G, Head(ps)).value
             new_ancestors == SelectSeq(pa, LAMBDA a : a \notin SeqToSet(v))
         IN  AncestorsFromCells(G, Tail(ps), v \o new_ancestors)

\* parents of n whose parent.ancestors() call would not return yet
PendingParents(G, n) ==
    SelectSeq(G[n].parents, LAMBDA p : AncestorsCell(G, p).outcome # "value")

\* a thread that holds the map calls n.ancestors() on one of its nodes
AncestorsCall(t) ==
    /\ thread_pc[t] = "ready"
    /\ \E n \in DOMAIN observed[t] :
         ancestors_stack' = [ ancestors_stack EXCEPT ![t] = << n >> ]
    /\ thread_pc' = [ thread_pc EXCEPT ![t] = "ancestors" ]
    /\ UNCHANGED << beyond_once, catalog, compile_target, cell_state,
                    KNOWN_TARGETS, local_targets, keys, next_key, stack,
                    inserted, observed, ancestors_state, ancestors_value,
                    ancestors_ret >>

\* get_or_init on an untouched cell: this thread becomes its initialiser
AncestorsAcquire(t) ==
    /\ thread_pc[t] = "ancestors"
    /\ LET n == last(ancestors_stack[t])
       IN  /\ ancestors_state[n] \notin Threads
           /\ AncestorsCell(observed[t], n).outcome = "init"
           /\ ancestors_state' = [ ancestors_state EXCEPT ![n] = t ]
    /\ UNCHANGED << beyond_once, catalog, compile_target, thread_pc,
                    cell_state, KNOWN_TARGETS, local_targets, keys, next_key,
                    stack, inserted, observed, ancestors_value,
                    ancestors_stack, ancestors_ret >>

\* inside the initialiser: parent.ancestors() on a parent whose list is not
\* there yet
AncestorsDescend(t) ==
    /\ thread_pc[t] = "ancestors"
    /\ LET n == last(ancestors_stack[t])
           pending == PendingParents(observed[t], n)
       IN  /\ ancestors_state[n] = t
           /\ pending # << >>
           /\ ancestors_stack' =
                [ ancestors_stack EXCEPT ![t] = Append(@, Head(pending)) ]
    /\ UNCHANGED << beyond_once, catalog, compile_target, thread_pc,
                    cell_state, KNOWN_TARGETS, local_targets, keys, next_key,
                    stack, inserted, observed, ancestors_state,
                    ancestors_value, ancestors_ret >>

\* the initialiser returns v and get_or_init stores it
AncestorsStore(t) ==
    /\ thread_pc[t] = "ancestors"
    /\ LET n == last(ancestors_stack[t])
           G == observed[t]
       IN  /\ ancestors_state[n] = t
           /\ PendingParents(G, n) = << >>
           /\ ancestors_value' =
                [ ancestors_value EXCEPT
                    ![n] = AncestorsFromCells(G, G[n].parents, G[n].parents) ]
           /\ ancestors_state' = [ ancestors_state EXCEPT ![n] = "complete" ]
    /\ UNCHANGED << beyond_once, catalog, compile_target, thread_pc,
                    cell_state, KNOWN_TARGETS, local_targets, keys, next_key,
                    stack, inserted, observed, ancestors_stack, ancestors_ret >>

\* get_or_init returns the list to the caller; the outermost call ends the
\* thread's work
AncestorsReturn(t) ==
    /\ thread_pc[t] = "ancestors"
    /\ LET n == last(ancestors_stack[t])
           r == AncestorsCell(observed[t], n)
           outer == SubSeq(ancestors_stack[t], 1, Len(ancestors_stack[t]) - 1)
       IN  /\ ancestors_state[n] # t
           /\ r.outcome = "value"
           /\ ancestors_stack' = [ ancestors_stack EXCEPT ![t] = outer ]
           /\ IF outer = << >>
              THEN /\ ancestors_ret' = [ ancestors_ret EXCEPT ![t] = << n, r.value >> ]
                   /\ thread_pc' = [ thread_pc EXCEPT ![t] = "done" ]
              ELSE UNCHANGED << ancestors_ret, thread_pc >>
    /\ UNCHANGED << beyond_once, catalog, compile_target, cell_state,
                    KNOWN_TARGETS, local_targets, keys, next_key, stack,
                    inserted, observed, ancestors_state, ancestors_value >>

OnceNext ==
    \E t \in Threads :
        \/ CallKnownTargets(t)
        \/ Wake(t)
        \/ NextKey(t)
        \/ FillTarget(t)
        \/ HostPlatform(t)
        \/ Publish(t)
        \/ AncestorsCall(t)
        \/ AncestorsAcquire(t)
        \/ AncestorsDescend(t)
        \/ AncestorsStore(t)
        \/ AncestorsReturn(t)

OnceSpec == OnceInit /\ [][OnceNext]_vars

\* a running thread keeps taking steps
FairOnceSpec == OnceSpec /\ WF_vars(OnceNext)

\* ---------------------------------------------------------------- repeated detections
\* Several detections in one process on a windows host: detect_windows builds
\* the CpuId of every detection from the provider; CpuId::host keeps one in a
\* OnceLock.

CpuIdInit ==
    /\ machine \in CpuIdProviders
    /\ CPUID = << >>
    /\ cpuid_calls = 0
    /\ snapshot = << >>
    /\ queried = << >>
    /\ detections = 0
    /\ catalog = "ScenarioA"
    /\ compile_target = "x86_64"
    /\ DetectIdle
    /\ GraphIdle
    /\ OnceIdle
    /\ ParseIdle
    /\ AliasIdle

\* detect_windows on an x86 host: CpuId::detect(cpuid)
DetectWindowsX86(a) ==
    /\ detections < MaxDetections
    /\ a \in { "x86_64", "x86" }
    /\ detections' = detections + 1
    /\ cpuid_calls' = cpuid_calls + 1
    /\ snapshot' = CpuId_detect(machine)
    /\ queried' = CpuId_queries(machine)
    /\ UNCHANGED << beyond_cpuid, machine, CPUID >>

\* detect_windows on another architecture: the generic node, no CPUID query
DetectWindowsGeneric(a) ==
    /\ detections < MaxDetections
    /\ a \in { "ppc64", "ppc64le", "aarch64", "riscv64" }
    /\ detections' = detections + 1
    /\ UNCHANGED << beyond_cpuid, machine, CPUID, cpuid_calls, snapshot, queried >>

\* CpuId::host: CPUID.get_or_init(CpuId::detect)
CallHost ==
    /\ detections < MaxDetections
    /\ detections' = detections + 1
    /\ IF CPUID = << >>
       THEN /\ CPUID' = << CpuId_detect(machine) >>
            /\ cpuid_calls' = cpuid_calls + 1
            /\ queried' = CpuId_queries(machine)
       ELSE UNCHANGED << CPUID, cpuid_calls, queried >>
    /\ snapshot' = CPUID'[1]
    /\ UNCHANGED << beyond_cpuid, machine >>

CpuIdNext ==
    \/ \E a \in { "x86_64", "x86" } : DetectWindowsX86(a)
    \/ \E a \in { "ppc64", "aarch64" } : DetectWindowsGeneric(a)
    \/ CallHost

CpuIdSpec == CpuIdInit /\ [][CpuIdNext]_vars

\* ---------------------------------------------------------------- reading /proc/cpuinfo
\* Lines are character sequences; a line the reader fails to decode is ErrStr.
STR_cpu == << "c", "p", "u" >>

LineBlank == <<  >>
LineWord == << "c", "p", "u" >>
LineProcessor == << "p", "r", "o", "c", "\t", ":", " ", "0" >>
LineCpu9 == << "c", "p", "u", "\t", ":", " ", "P", "O", "W", "E", "R", "9", " ", "(", "r", "a", "w", ")" >>
LineCpu10 == << " ", "c", "p", "u", " ", ":", "P", "O", "W", "E", "R", "1", "0", " " >>
LineCpu7Colon == << "c", "p", "u", ":", "P", "O", "W", "E", "R", "7", ":", "1" >>
LineCpuEmpty == << "c", "p", "u", ":" >>
LineNoKey == << ":", "P", "O", "W", "E", "R", "8" >>
LineCpuLower == << "c", "p", "u", ":", " ", "p", "o", "w", "e", "r", "9" >>
LineCpuNoDigit == << "c", "p", "u", ":", "P", "O", "W", "E", "R", "x", "9" >>
LineCpuZeros == << "c", "p", "u", ":", "P", "O", "W", "E", "R", "0", "0", "7" >>
LineCpuOverflow == << "c", "p", "u", ":", "P", "O", "W", "E", "R", "1", "8", "4", "4", "6", "7", "4", "4", "0", "7", "3", "7", "0", "9", "5", "5", "1", "6", "1", "6" >>
LineCapitalKey == << "C", "p", "u", ":", "P", "O", "W", "E", "R", "8" >>

SampleLines ==
    { LineBlank, LineWord, LineProcessor, LineCpu9, LineCpu10, LineCpu7Colon, LineCpuEmpty, LineNoKey, LineCpuLower, LineCpuNoDigit, LineCpuZeros, LineCpuOverflow, LineCapitalKey, ErrStr }

\* no (key, value): split_once found no separator
NoPair == << >>

\* str::split_once(c): the text before and after the first c
split_once(s, c) ==
    IF \E i \in 1..Len(s) : s[i] = c
    THEN LET i == CHOOSE k \in 1..Len(s) :
                    s[k] = c /\ \A j \in 1..(k - 1) : s[j] # c
         IN  << SubSeq(s, 1, i - 1), SubSeq(s, i + 1, Len(s)) >>
    ELSE NoPair

is_whitespace(c) == c \in { " ", "\t" }

RECURSIVE trim_start(_)
trim_start(s) ==
    IF s # << >> /\ is_whitespace(s[1]) THEN trim_start(Tail(s)) ELSE s

RECURSIVE trim_end(_)
trim_end(s) ==
    IF s # << >> /\ is_whitespace(s[Len(s)])
    THEN trim_end(SubSeq(s, 1, Len(s) - 1))
    ELSE s

trim(s) == trim_end(trim_start(s))

\* the loop of from_reader that goes on after a line without a separator
RECURSIVE from_reader_all_lines(_, _, _)
from_reader_all_lines(lines, i, cpu_info) ==
    IF i > Len(lines) THEN cpu_info
    ELSE IF lines[i] = ErrStr THEN from_reader_all_lines(lines, i + 1, cpu_info)
    ELSE LET kv == split_once(lines[i], ":")
         IN  IF kv = NoPair
             THEN from_reader_all_lines(lines, i + 1, cpu_info)
             ELSE from_reader_all_lines(lines, i + 1,
                                        Put(cpu_info, trim(kv[1]), trim(kv[2])))

\* the loop of from_reader from line i on, cpu_info being the map so far
RECURSIVE from_reader_lines(_, _, _)
from_reader_lines(lines, i, cpu_info) ==
    IF i > Len(lines) THEN cpu_info
    ELSE IF lines[i] = ErrStr THEN from_reader_lines(lines, i + 1, cpu_info)
    ELSE LET kv == split_once(lines[i], ":")
         IN  IF kv = NoPair
             THEN IF DOMAIN cpu_info # {}
                  THEN cpu_info
                  ELSE from_reader_lines(lines, i + 1, cpu_info)
             ELSE from_reader_lines(lines, i + 1,
                                    Put(cpu_info, trim(kv[1]), trim(kv[2])))

\* ProcCpuInfo::from_reader keeping every block
from_reader_every_block(lines) == from_reader_all_lines(lines, 1, << >>)

\* ProcCpuInfo::from_reader
from_reader(lines) == from_reader_lines(lines, 1, << >>)

\* ProcCpuInfo::get(key).unwrap_or_default()
get_or_default(cpu_info, key) ==
    IF key \in DOMAIN cpu_info THEN cpu_info[key] ELSE << >>

\* the keys detect_linux reads for ppc64 and ppc64le
PowerCpuInfo(cpu_info) ==
    CpuInfo(NONE, {}, NONE, {}, get_or_default(cpu_info, STR_cpu), NONE)

ReaderInputs ==
    UNION { [ 1..n -> SampleLines ] : n \in 0..MaxLines }

ParseInit ==
    /\ reader \in ReaderInputs
    /\ proc_cpu_info = << >>
    /\ linux_draft = NoDraft
    /\ parse_pc = "text"
    /\ catalog = "Power"
    /\ compile_target = "powerpc64"
    /\ DetectIdle
    /\ GraphIdle
    /\ OnceIdle
    /\ CpuIdIdle
    /\ AliasIdle

\* ProcCpuInfo::from_reader over the whole text
FromReader ==
    /\ parse_pc = "text"
    /\ proc_cpu_info' = from_reader(reader)
    /\ parse_pc' = "parsed"
    /\ UNCHANGED << beyond_parse, reader, linux_draft >>

\* detect_linux(arch, &cpu_info) for the POWER architectures
DetectLinuxPower(a) ==
    /\ parse_pc = "parsed"
    /\ a \in { "ppc64", "ppc64le" }
    /\ linux_draft' = detect_linux(a, PowerCpuInfo(proc_cpu_info))
    /\ parse_pc' = "drafted"
    /\ UNCHANGED << beyond_parse, reader, proc_cpu_info >>

ParseNext ==
    \/ FromReader
    \/ \E a \in { "ppc64", "ppc64le" } : DetectLinuxPower(a)

ParseSpec == ParseInit /\ [][ParseNext]_vars

\* ---------------------------------------------------------------- alias expansion
\* The alias loop of detect_macos over alias tables of up to MaxAliases pairs.
AliasTokens == { "avx1.0", "avx", "xsave", "xsavec" }

AliasTables ==
    UNION { [ K -> (SUBSET AliasTokens) \ { {} } ] :
              K \in { S \in SUBSET AliasTokens : Cardinality(S) <= MaxAliases } }

AliasInit ==
    /\ darwin_flags \in AliasTables
    /\ probed \in SUBSET { "avx1.0", "xsave", "sse2" }
    /\ visit_order = << >>
    /\ expanded = {}
    /\ alias_pc = "probed"
    /\ catalog = "ScenarioA"
    /\ compile_target = "x86_64"
    /\ DetectIdle
    /\ GraphIdle
    /\ OnceIdle
    /\ CpuIdIdle
    /\ ParseIdle

\* for (darwin_flag, linux_flag) in darwin_flags.iter(): the HashMap yields
\* its pairs in some order
ExpandAliases ==
    /\ alias_pc = "probed"
    /\ \E order \in SetToSeqs(DOMAIN darwin_flags) :
         /\ visit_order' = order
         /\ expanded' = expand_aliases(darwin_flags, probed, order)
    /\ alias_pc' = "expanded"
    /\ UNCHANGED << beyond_alias, darwin_flags, probed >>

AliasNext == ExpandAliases

AliasSpec == AliasInit /\ [][AliasNext]_vars

\* ---------------------------------------------------------------- properties
Returned == pc = "done" /\ result \notin { Pending, Unsupported }

DraftBuilt == detected_arch # NoDraft

HandledArchs == { "x86_64", "x86", "aarch64", "ppc64", "ppc64le", "riscv64" }

\* what detect returns for a candidate list in a given enumeration order
DetectFrom(G, targets) ==
    LET g == BestGeneric(G, targets)
    IN  IF g = NONE THEN Unsupported
        ELSE FinalChoice(G, BestCandidates(G, targets, g), g)

\* C1: whenever detect returns a node, the family of the node is the root
\* named by the resolved architecture string.
C1_FamilyIsResolvedRoot ==
    Returned => family(known_targets, result) = arch

\* C1 outside x86: for every resolved architecture other than "x86" the
\* returned node's family is the root named by the architecture.
C1_FamilyExceptX86 ==
    (Returned /\ arch # "x86") => family(known_targets, result) = arch

\* C2: for x86_64 every feature of the returned node and of its ancestors is
\* a feature of the draft node, and the vendor is the draft's or generic.
C2_FullyCompatible ==
    (Returned /\ arch = "x86_64") =>
        /\ all_features(known_targets, result) \subseteq detected_arch.features
        /\ known_targets[result].vendor \in { detected_arch.vendor, "generic" }

\* C2 as the code has it: the returned node's own features are features of
\* the draft node.
C2_OwnFeaturesCompatible ==
    (Returned /\ arch = "x86_64") =>
        /\ known_targets[result].features \subseteq detected_arch.features
        /\ known_targets[result].vendor \in { detected_arch.vendor, "generic" }

\* C3: the outcome of detect does not depend on the order in which the
\* candidate set is enumerated.
C3_OrderIndependent ==
    pc = "done" =>
        \A other \in SetToSeqs(SeqToSet(compatible_targets)) :
            DetectFrom(known_targets, other) = result

\* C4: once a draft node exists, detect ends with Unsupported exactly when no
\* candidate has vendor "generic"; compatible vendor specific candidates do
\* not change that.
C4_UnsupportedIffNoGeneric ==
    (pc = "done" /\ DraftBuilt) =>
        ( result = Unsupported <=>
            ~\E t \in CompatibleSet(known_targets, arch, os, detected_arch) :
                known_targets[t].vendor = "generic" )

C4_Witness ==
    /\ pc = "done"
    /\ DraftBuilt
    /\ result = Unsupported
    /\ compatible_targets # << >>
    /\ \A i \in 1..Len(compatible_targets) :
         known_targets[compatible_targets[i]].vendor # "generic"

\* C5: a resolved architecture that detect has no arm for never yields a
\* node, and detect ends with Unsupported.
C5_UnhandledArchUnsupported ==
    (arch # NONE /\ arch \notin HandledArchs) =>
        /\ result \in { Pending, Unsupported }
        /\ pc = "done" => result = Unsupported

C5_Witness ==
    /\ pc = "done"
    /\ arch = "sparc64"
    /\ os = "linux"
    /\ DraftBuilt
    /\ "sparc64" \in DOMAIN known_targets
    /\ result = Unsupported

\* some sysctl lookup that detect made failed
SysCtlLookupFailed ==
    /\ os = "macos"
    /\ sysctl # NoSysCtl
    /\ \/ sysctl.brand_string = ErrStr
       \/ /\ arch = "x86_64"
          /\ pc \notin { "start", "resolved" }
          /\ \/ sysctl.features = ErrTokens
             \/ sysctl.leaf7_features = ErrTokens
             \/ sysctl.vendor = ERR

\* C6: when a required OS query fails (uname, the /proc/cpuinfo read, a
\* sysctl lookup), detect ends with Unsupported and returns no node.
C6_FailedQueryUnsupported ==
    (pc = "done" /\ (uname = ERR \/ cpuinfo_src = "failed" \/ SysCtlLookupFailed))
        => result = Unsupported

\* C6 on Linux: a failed uname query or a failed /proc/cpuinfo read ends
\* detect with Unsupported.
C6_LinuxFailedQueryUnsupported ==
    (pc = "done" /\ (uname = ERR \/ cpuinfo_src = "failed")) => result = Unsupported

\* C7: when some candidate is a strict superset of the best generic
\* candidate, the returned node is a strict superset of it or the candidate
\* itself.
C7_ResultAboveGenericFloor ==
    ( /\ pc = "done"
      /\ best_generic # NONE
      /\ \E i \in 1..Len(compatible_targets) :
           is_strict_superset(known_targets, compatible_targets[i], best_generic) )
    => ( /\ Returned
         /\ \/ result = best_generic
            \/ is_strict_superset(known_targets, result, best_generic) )

C7_Witness ==
    /\ Returned
    /\ is_strict_superset(known_targets, result, best_generic)
    /\ \E i \in 1..Len(compatible_targets) :
         /\ ~is_superset(known_targets, compatible_targets[i], best_generic)
         /\ ~is_superset(known_targets, best_generic, compatible_targets[i])

ScenarioACatalog == Microarchitectures(catalog) = CatalogScenarioA

\* C8: Scenario A, draft vendor GenuineIntel with features {sse, sse2, avx}:
\* detect for x86_64 returns icelake.
C8_ScenarioA ==
    ( /\ pc = "done"
      /\ ScenarioACatalog
      /\ arch = "x86_64"
      /\ DraftBuilt
      /\ detected_arch.vendor = "GenuineIntel"
      /\ detected_arch.features = { "sse", "sse2", "avx" } )
    => result = "icelake"

C8_Witness ==
    /\ pc = "done"
    /\ ScenarioACatalog
    /\ arch = "x86_64"
    /\ detected_arch.vendor = "GenuineIntel"
    /\ detected_arch.features = { "sse", "sse2", "avx" }
    /\ best_generic = "x86_64_v2"
    /\ result = "icelake"

\* C9: when no candidate is a strict superset of the best generic candidate
\* the result is that candidate; Scenario B (Scenario A catalog, draft
\* features {sse, sse2}) gives x86_64_v2.
C9_FallBackToGeneric ==
    /\ ( /\ pc = "done"
         /\ best_generic # NONE
         /\ ~\E i \in 1..Len(compatible_targets) :
              is_strict_superset(known_targets, compatible_targets[i], best_generic) )
       => result = best_generic
    /\ ( /\ pc = "done"
         /\ ScenarioACatalog
         /\ arch = "x86_64"
         /\ DraftBuilt
         /\ detected_arch.features = { "sse", "sse2" } )
       => result = "x86_64_v2"

C9_Witness ==
    /\ pc = "done"
    /\ ScenarioACatalog
    /\ arch = "x86_64"
    /\ detected_arch.vendor = "GenuineIntel"
    /\ detected_arch.features = { "sse", "sse2" }
    /\ best_candidates = << >>
    /\ result = "x86_64_v2"

\* the root and its descendants
FamilyNodes(G, root) ==
    { t \in DOMAIN G : t = root \/ decendent_of(G, t, root) }

\* the family is one chain under the root, generations increasing along it
IsGenerationChain(G, root) ==
    /\ root \in DOMAIN G
    /\ \A t \in FamilyNodes(G, root) \ { root } :
         /\ Len(G[t].parents) = 1
         /\ G[G[t].parents[1]].generation < G[t].generation
    /\ \A t, u \in FamilyNodes(G, root) \ { root } :
         t # u => G[t].parents # G[u].parents

\* C10: for ppc64/ppc64le and a catalog whose family is one chain of
\* increasing generations, a returned node has the largest generation not
\* above the draft's and never one above it; a generic root within the
\* draft's generation makes detect return a node; generations 7, 8, 9 and
\* draft generation 9 give the generation 9 node.
C10_LargestGenerationInChain ==
    ( /\ pc = "done"
      /\ arch \in { "ppc64", "ppc64le" }
      /\ DraftBuilt
      /\ IsGenerationChain(known_targets, arch) )
    => LET G == known_targets
           within == { t \in FamilyNodes(G, arch) :
                         G[t].generation <= detected_arch.generation }
       IN  /\ Returned =>
                /\ result \in within
                /\ \A t \in within : G[t].generation <= G[result].generation
           /\ (arch \in within /\ G[arch].vendor = "generic") => Returned
           /\ ( /\ { G[t].generation : t \in FamilyNodes(G, arch) } = { 7, 8, 9 }
                /\ detected_arch.generation = 9 )
              => (Returned /\ G[result].generation = 9)

C10_Witness ==
    /\ pc = "done"
    /\ arch = "ppc64le"
    /\ IsGenerationChain(known_targets, arch)
    /\ { known_targets[t].generation : t \in FamilyNodes(known_targets, arch) }
         = { 7, 8, 9 }
    /\ detected_arch.generation = 9
    /\ result = "power9le"

\* ---------------------------------------------------------------- C11
\* the catalog defines the resolved architecture as a root entry that is
\* generic, has no own features and has generation 0
GenericRootInCatalog ==
    /\ arch \in DOMAIN Microarchitectures(catalog)
    /\ Microarchitectures(catalog)[arch] = Entry(<< >>, "generic", {}, 0)

LinuxFamilies == { "x86_64", "aarch64", "ppc64", "ppc64le", "riscv64" }

\* C11: on Linux with cpu-info available, for x86_64, aarch64, ppc64, ppc64le
\* and riscv64, when the catalog holds the family root as a generic node with
\* no own features and generation 0, detect returns Ok(node) whatever the
\* draft is; it never returns Unsupported.
C11_GenericRootAlwaysDetected ==
    ( /\ pc = "done"
      /\ os = "linux"
      /\ cpuinfo_src \in { "injected", "procfile" }
      /\ arch \in LinuxFamilies
      /\ GenericRootInCatalog )
    => Returned

\* a ppc64le run whose cpu key gives no generation falls back to the root
C11_Witness ==
    /\ pc = "done"
    /\ os = "linux"
    /\ cpuinfo_src = "procfile"
    /\ arch = "ppc64le"
    /\ GenericRootInCatalog
    /\ detected_arch.generation = 0
    /\ result = "ppc64le"

\* ---------------------------------------------------------------- C12
NoDuplicates(s) == \A i, j \in 1..Len(s) : i # j => s[i] # s[j]

RECURSIVE Closure(_, _)
\* every node reachable from the names in S by parent links, S included
Closure(G, S) ==
    LET step == S \cup UNION { SeqToSet(G[n].parents) : n \in S }
    IN  IF step = S THEN S ELSE Closure(G, step)

\* the proper ancestors of n: the transitive closure of its parents
ProperAncestors(G, n) == Closure(G, SeqToSet(G[n].parents))

RECURSIVE Discover(_, _, _)
\* names of the sequence `found` that `seen` does not hold, each once, in order
Discover(found, seen, acc) ==
    IF found = << >> THEN acc
    ELSE IF Head(found) \in seen \cup SeqToSet(acc)
         THEN Discover(Tail(found), seen, acc)
         ELSE Discover(Tail(found), seen, Append(acc, Head(found)))

RECURSIVE ParentsOfAll(_, _)
\* the parents of each node of the frontier, frontier order then parent order
ParentsOfAll(G, frontier) ==
    IF frontier = << >> THEN << >>
    ELSE G[Head(frontier)].parents \o ParentsOfAll(G, Tail(frontier))

RECURSIVE BreadthFirstFrom(_, _, _)
\* a breadth-first search by levels: `seen` is the order so far, `frontier` the
\* nodes at the largest distance reached
BreadthFirstFrom(G, frontier, seen) ==
    IF frontier = << >> THEN seen
    ELSE LET level == Discover(ParentsOfAll(G, frontier), SeqToSet(seen), << >>)
         IN  BreadthFirstFrom(G, level, seen \o level)

\* every ancestor of n at the position where a breadth-first search from n
\* first discovers it
BreadthFirstOrder(G, n) ==
    LET level == Discover(G[n].parents, {}, << >>)
    IN  BreadthFirstFrom(G, level, level)

FirstParentReaching(G, n, x) ==
    CHOOSE i \in 1..Len(G[n].parents) :
        /\ x \in Closure(G, { G[n].parents[i] })
        /\ \A j \in 1..(i - 1) : x \notin Closure(G, { G[n].parents[j] })

\* every node among n and its ancestors has at most one parent
SingleLineage(G, n) ==
    \A m \in Closure(G, { n }) : Len(G[m].parents) <= 1

NameAndAncestors(G, n) == { n } \cup ProperAncestors(G, n)

\* C14: is_superset(a, a) holds for every node; is_superset(a, b) holds
\* exactly when a's name with the names of a's ancestors contains b's name with
\* the names of b's ancestors; is_strict_superset(a, b) implies
\* is_superset(a, b) and that the names of a and b differ.
C14_SupersetIsNodeSetContainment ==
    /\ call = "is_superset" =>
         /\ ret = (NameAndAncestors(graph, arg) \subseteq NameAndAncestors(graph, this))
         /\ this = arg => ret
    /\ call = "is_strict_superset" =>
         (ret => /\ NameAndAncestors(graph, arg) \subseteq NameAndAncestors(graph, this)
                 /\ is_superset(graph, this, arg)
                 /\ this # arg)

\* a is a superset of an ancestor that is not one of its direct parents
C14_Witness ==
    /\ call = "is_superset"
    /\ ret
    /\ this # arg
    /\ arg \notin SeqToSet(graph[this].parents)
    /\ Len(graph[this].parents) = 2

\* ---------------------------------------------------------------- C15
\* the roots (nodes without parents) among n and its ancestors
Roots(G, n) == { m \in Closure(G, { n }) : G[m].parents = << >> }

\* the assumption family() documents: one root per reachable tree
SingleRoot(G, n) == Cardinality(Roots(G, n)) = 1

OwnFeaturesOf(G, S) == UNION { G[a].features : a \in S }

\* C16: all_features(node) is the union of node.features with the own
\* features of every node in ancestors(node), not only of the direct parents.
C16_AllFeaturesOverAncestors ==
    call = "all_features" =>
      /\ ret = graph[this].features
                 \cup OwnFeaturesOf(graph, SeqToSet(ancestors(graph, this)))
      /\ ret = OwnFeaturesOf(graph, NameAndAncestors(graph, this))

\* features inherited from an ancestor that is not a direct parent
C16_Witness ==
    /\ call = "all_features"
    /\ Len(graph[this].parents) = 2
    /\ ret # graph[this].features
             \cup OwnFeaturesOf(graph, SeqToSet(graph[this].parents))

\* ---------------------------------------------------------------- C17
\* the candidates of a non-macOS aarch64 run have just been collected
Aarch64Collected == pc = "compatible" /\ arch = "aarch64" /\ os # "macos"

\* nodes of the aarch64 family with the vendor and own features of the table
\* row "aarch64 (non-macOS)"
Aarch64ByVendorAndFeatures(G, draft) ==
    { t \in DOMAIN G :
        /\ "aarch64" \in DOMAIN G
        /\ family(G, t) = "aarch64"
        /\ G[t].vendor \in { "generic", draft.vendor }
        /\ G[t].features \subseteq draft.features }

\* C17 (as stated): on non-macOS aarch64 the candidate set is exactly the set
\* of catalog nodes whose family root is the aarch64 root, whose vendor is
\* "generic" or the draft's vendor, and whose own features are a subset of the
\* draft's features.
C17_Aarch64Candidates ==
    Aarch64Collected =>
      SeqToSet(compatible_targets)
        = Aarch64ByVendorAndFeatures(known_targets, detected_arch)

\* C17 (amended): on non-macOS aarch64 the candidate set is exactly the set
\* of catalog nodes whose family root is the aarch64 root, whose vendor is
\* "generic" or the draft's vendor, whose own features are a subset of the
\* draft's features, and that are not generic nodes other than the root named
\* "aarch64".
C17_Aarch64CandidatesWithoutGenericLevels ==
    Aarch64Collected =>
      SeqToSet(compatible_targets)
        = { t \in Aarch64ByVendorAndFeatures(known_targets, detected_arch) :
              known_targets[t].vendor = "generic" => t = "aarch64" }

\* an ARM draft with fp: armv8.1a has the family, vendor and features of the
\* table row, and is not a candidate
C17_Witness ==
    /\ Aarch64Collected
    /\ os = "linux"
    /\ detected_arch.vendor = "ARM"
    /\ "armv8.1a" \in Aarch64ByVendorAndFeatures(known_targets, detected_arch)
    /\ SeqToSet(compatible_targets) = { "aarch64", "cortex_a72" }

\* ---------------------------------------------------------------- C18
\* the candidates of a macOS aarch64 run have just been collected
MacosAarch64Collected == pc = "compatible" /\ arch = "aarch64" /\ os = "macos"

\* the node the draft's model names, with all of its ancestors
ModelAndAncestors(G, draft) ==
    IF draft.name \in DOMAIN G THEN NameAndAncestors(G, draft.name) ELSE {}

\* C18 (as stated): on macOS aarch64 the candidate set is exactly the catalog
\* node named by the draft's model together with all of that node's
\* ancestors; no ancestor is left out and no other node is included.
C18_MacosModelAndAncestors ==
    MacosAarch64Collected =>
      SeqToSet(compatible_targets) = ModelAndAncestors(known_targets, detected_arch)

\* C18 (amended): on macOS aarch64 the candidate set is exactly the catalog
\* node named by the draft's model together with those of that node's
\* ancestors, within the aarch64 family, whose vendor is the draft's vendor or
\* that are the generic root named "aarch64"; generic ancestors other than
\* that root are left out, and no other node is included.
C18_MacosModelAndVendorAncestors ==
    MacosAarch64Collected =>
      SeqToSet(compatible_targets)
        = { t \in ModelAndAncestors(known_targets, detected_arch) :
              /\ "aarch64" \in DOMAIN known_targets
              /\ family(known_targets, t) = "aarch64"
              /\ known_targets[t].vendor \in { "generic", detected_arch.vendor }
              /\ known_targets[t].vendor = "generic" => t = "aarch64" }

\* an M2 host: m1 and the root are candidates, the generic level is not
C18_Witness ==
    /\ MacosAarch64Collected
    /\ detected_arch.name = "m2"
    /\ "armv8.1a" \in ModelAndAncestors(known_targets, detected_arch)
    /\ SeqToSet(compatible_targets) = { "m2", "m1", "aarch64" }

\* ---------------------------------------------------------------- C19
\* C19: when an explicit target architecture is set (with_target_arch),
\* detect uses it as the resolved architecture on linux, windows and macos;
\* the uname query and the macOS brand-string heuristic are not consulted.
C19_ExplicitArchOnEveryOs ==
    ( /\ pc # "start"
      /\ target_arch # NONE
      /\ os \in { "linux", "windows", "macos" } )
    => /\ arch = target_arch
       /\ uname = NONE

\* what the code does: the explicit architecture is used on linux and windows
C19_ExplicitArchOnLinuxAndWindows ==
    ( /\ pc # "start"
      /\ target_arch # NONE
      /\ os \in { "linux", "windows" } )
    => /\ arch = target_arch
       /\ uname = NONE

\* ---------------------------------------------------------------- C20
\* known_targets has been called: the graph is built on first use, by the
\* candidate filter
GraphBuilt == pc \in { "compatible", "generic" } \/ Returned

\* names of the graph that the catalog does not define
AddedNodes == DOMAIN known_targets \ DOMAIN Microarchitectures(catalog)

C21_OnlyCompleteValuesObserved ==
    /\ cell_state = "complete" => KNOWN_TARGETS = known_targets
    /\ \A t \in Threads :
         /\ thread_pc[t] \in { "ready", "ancestors", "done" }
              => /\ observed[t] = known_targets
                 /\ DOMAIN Microarchitectures(catalog) \subseteq DOMAIN observed[t]
         /\ thread_pc[t] = "done"
              => ancestors_ret[t][2]
                   = ancestors(known_targets, ancestors_ret[t][1])
    /\ \A n \in DOMAIN ancestors_state :
         ancestors_state[n] = "complete"
           => ancestors_value[n] = ancestors(known_targets, n)

\* both threads hold the published map, built with a node added for the host
\* platform, and t2 waits for the ancestors list t1 is computing
C21_Witness ==
    /\ catalog = "Diamond"
    /\ thread_pc["t1"] = "ancestors"
    /\ thread_pc["t2"] = "ancestors"
    /\ observed["t1"] = known_targets
    /\ observed["t2"] = known_targets
    /\ "sparc64" \in DOMAIN KNOWN_TARGETS
    /\ ancestors_state["zen2"] = "t1"
    /\ last(ancestors_stack["t2"]) = "zen2"
    /\ last(ancestors_stack["t1"]) = "zen"

\* ---------------------------------------------------------------- C22
\* C22: across any number of detections in one process the CPUID snapshot is
\* computed at most once: CpuId::detect queries the CPU during the first
\* detection that needs it and never again.
C22_CpuIdComputedAtMostOnce ==
    [][cpuid_calls > 0 => cpuid_calls' = cpuid_calls]_vars

\* ---------------------------------------------------------------- C23
\* the inserts made so far: no name twice, every parent before its children
InsertedOnceParentsFirst ==
    /\ NoDuplicates(inserted)
    /\ \A i \in 1..Len(inserted) :
         \A p \in SeqToSet(Microarchitectures(catalog)[inserted[i]].from) :
           \E j \in 1..(i - 1) : inserted[j] = p

\* every node of map G that is a catalog entry has the entry's parent list
ParentsAsInCatalog(G) ==
    \A n \in DOMAIN G \cap DOMAIN Microarchitectures(catalog) :
      G[n].parents = Microarchitectures(catalog)[n].from

\* construction has returned: every catalog entry was inserted
ConstructionReturned ==
    /\ cell_state = "complete"
    /\ SeqToSet(inserted) = DOMAIN Microarchitectures(catalog)
    /\ Len(inserted) = Cardinality(DOMAIN Microarchitectures(catalog))
    /\ DOMAIN Microarchitectures(catalog) \subseteq DOMAIN KNOWN_TARGETS
    /\ ParentsAsInCatalog(KNOWN_TARGETS)

\* C23: for an acyclic catalog whose parent names are all defined, graph
\* construction terminates, inserts each catalog entry exactly once and every
\* parent before any of its children, and gives each node the parent list of
\* its catalog entry, in the same order.
C23_ConstructionTerminatesParentsFirst ==
    /\ [](InsertedOnceParentsFirst /\ ParentsAsInCatalog(local_targets))
    /\ <>[]ConstructionReturned

\* the key order starts at zen2, whose parents are built by the recursion
C23_Witness ==
    /\ catalog = "Diamond"
    /\ cell_state = "running"
    /\ Len(keys) = 4
    /\ keys[1] = "zen2"
    /\ next_key = 2
    /\ stack = << >>
    /\ inserted = << "x86_64", "zen", "x86_64_v3", "zen2" >>
    /\ local_targets["zen2"].parents = << "zen", "x86_64_v3" >>

\* ---------------------------------------------------------------- C24
\* the descriptors of one table of the schema whose leaf the CPU supports
SupportedDescriptors(table, highest) ==
    { d \in SeqToSet(table) : LeU32(d.input[1], highest) }

\* the descriptors CpuId::detect may read on CPU p
ApplicableDescriptors(p) ==
    SupportedDescriptors(CpuIdSchema.flags, p[Leaf0].eax)
    \cup SupportedDescriptors(CpuIdSchema.extension_flags, p[LeafExt0].eax)

\* the declared bits set in the answers of CPU p at the applicable leaves
DeclaredBitsSet(p) ==
    { b.name : b \in UNION { { x \in d.bits :
                                BitIsSet(RegisterOf(p[d.input], x.register), x.bit) } :
                              d \in ApplicableDescriptors(p) } }

\* C24: CpuId::detect returns exactly the names of the declared bits whose
\* descriptor leaf is at most the highest supported leaf of its own table and
\* whose bit is set in the declared register of the answer at that leaf and
\* subleaf; it asks for no flag leaf above the applicable highest leaf.
C24_FeaturesAreDeclaredBitsSet ==
    cpuid_calls > 0 =>
      /\ snapshot.features = DeclaredBitsSet(machine)
      /\ \A i \in 1..Len(queried) :
           queried[i] \in { d.input : d \in ApplicableDescriptors(machine) }

\* leaf 7 and the extended leaf 0x80000001 hold set bits but lie above the
\* highest supported leaves
C24_Witness ==
    /\ cpuid_calls > 0
    /\ machine[Leaf0].eax = U32(0, 1)
    /\ machine[LeafExt0].eax = U32(1, 0)
    /\ BitIsSet(machine[Leaf7].ebx, 5)
    /\ BitIsSet(machine[LeafExt1].ecx, 0)
    /\ snapshot.features = { "sse", "avx" }
    /\ queried = << Leaf1 >>

\* ---------------------------------------------------------------- C25
HasSeparator(line) == \E k \in 1..Len(line) : line[k] = ":"

\* the readable lines of the text that hold a separator
PairLines == { i \in 1..Len(reader) : reader[i] # ErrStr /\ HasSeparator(reader[i]) }

\* the readable lines without one
SeparatorLess == { i \in 1..Len(reader) : reader[i] # ErrStr /\ ~HasSeparator(reader[i]) }

\* the first separator-less line after a pair, or the end of the text
Terminator ==
    LET after == { j \in SeparatorLess : \E i \in PairLines : i < j }
    IN  IF after = {} THEN Len(reader) + 1
        ELSE CHOOSE j \in after : \A k \in after : j <= k

\* the pair lines of the first logical CPU block
FirstBlock == { i \in PairLines : i < Terminator }

FirstColon(line) == CHOOSE k \in 1..Len(line) : line[k] = ":" /\ \A j \in 1..(k - 1) : line[j] # ":"

LineKey(line) == trim(SubSeq(line, 1, FirstColon(line) - 1))

LineValue(line) == trim(SubSeq(line, FirstColon(line) + 1, Len(line)))

\* the first block as a map; of two lines with one key the later one counts
FirstBlockMap ==
    [ k \in { LineKey(reader[i]) : i \in FirstBlock } |->
        LET with_k == { i \in FirstBlock : LineKey(reader[i]) = k }
        IN  LineValue(reader[CHOOSE i \in with_k : \A j \in with_k : j <= i]) ]

\* C25: from_reader records exactly the key:value lines, split at the first
\* colon and trimmed on both sides, that precede the first separator-less line
\* met after a pair was recorded; separator-less lines before any pair are
\* skipped and nothing after the terminating line is recorded.
C25_OnlyFirstBlockRecorded ==
    parse_pc \in { "parsed", "drafted" } => proc_cpu_info = FirstBlockMap

\* a pair with blanks around key and value, a blank line, the next CPU's pair
C25_Witness ==
    /\ parse_pc = "parsed"
    /\ reader = << LineCpu10, LineBlank, LineCpu9 >>
    /\ DOMAIN proc_cpu_info = { STR_cpu }
    /\ proc_cpu_info[STR_cpu] = STR_POWER \o << "1", "0" >>

\* ---------------------------------------------------------------- C26
\* the candidates of step 2: the compatible targets of vendor "generic"
GenericCandidates ==
    { t \in SeqToSet(compatible_targets) : known_targets[t].vendor = "generic" }

AncestorCount(t) == Cardinality(ProperAncestors(known_targets, t))

OwnFeatureCount(t) == Cardinality(known_targets[t].features)

\* C26: the generic candidate chosen in step 2 has vendor "generic" and is
\* maximal among the generic candidates under the key (number of ancestors,
\* number of own features): none has more ancestors, and none with as many
\* ancestors has more own features.
C26_BestGenericIsMaximal ==
    pc \in { "generic", "done" } /\ best_generic # NONE =>
      /\ best_generic \in GenericCandidates
      /\ \A t \in GenericCandidates :
           /\ AncestorCount(t) <= AncestorCount(best_generic)
           /\ AncestorCount(t) = AncestorCount(best_generic)
                => OwnFeatureCount(t) <= OwnFeatureCount(best_generic)

\* two generic levels with one ancestor each compete with the root; the one
\* with more own features is chosen
C26_Witness ==
    /\ pc = "generic"
    /\ catalog = "Levels"
    /\ GenericCandidates = { "x86_64", "x86_64_v2", "x86_64_avx" }
    /\ "zen" \in SeqToSet(compatible_targets)
    /\ AncestorCount("x86_64_avx") = AncestorCount("x86_64_v2")
    /\ best_generic = "x86_64_v2"

\* ---------------------------------------------------------------- C27
\* the cpu field of the parsed text is present
CpuFieldPresent == STR_cpu \in DOMAIN proc_cpu_info

StartsWithPOWER(s) == Len(s) >= 5 /\ \A i \in 1..5 : s[i] = STR_POWER[i]

\* the decimal digits of s that directly follow its first five characters
DigitsAfterPrefix(s) ==
    LET n == CHOOSE k \in 0..(Len(s) - 5) :
               /\ \A j \in 1..k : is_ascii_digit(s[5 + j])
               /\ k < Len(s) - 5 => ~is_ascii_digit(s[5 + k + 1])
    IN  SubSeq(s, 6, 5 + n)

RECURSIVE Pow10(_)
Pow10(n) == IF n = 0 THEN 1 ELSE 10 * Pow10(n - 1)

RECURSIVE NumberFormed(_)
NumberFormed(ds) ==
    IF ds = << >> THEN 0
    ELSE DigitValue(Head(ds)) * Pow10(Len(ds) - 1) + NumberFormed(Tail(ds))

\* ds written with leading zeros to n digits
PadLeft(ds, n) == [ i \in 1..n |-> IF i <= n - Len(ds) THEN "0" ELSE ds[i - (n - Len(ds))] ]

\* the number ds is at most 2^64 - 1, compared digit by digit
FitsUsize(ds) ==
    LET n == IF Len(ds) > Len(UsizeMaxDigits) THEN Len(ds) ELSE Len(UsizeMaxDigits)
        a == PadLeft(ds, n)
        b == PadLeft(UsizeMaxDigits, n)
    IN  \A i \in 1..n :
          (\A j \in 1..(i - 1) : a[j] = b[j]) => DigitValue(a[i]) <= DigitValue(b[i])

\* C27: for ppc64 and ppc64le on Linux the draft generation is the number
\* formed by the decimal digits that directly follow the prefix "POWER" in the
\* cpu field, up to the first non-digit; it is 0 when the field is absent,
\* does not start with "POWER", has no digit after the prefix, or the digits do
\* not fit the integer type.
C27_GenerationFromCpuField ==
    parse_pc = "drafted" =>
      linux_draft.generation =
        IF ~CpuFieldPresent THEN 0
        ELSE LET cpu == proc_cpu_info[STR_cpu]
             IN  IF ~StartsWithPOWER(cpu) THEN 0
                 ELSE IF DigitsAfterPrefix(cpu) = << >> THEN 0
                 ELSE IF ~FitsUsize(DigitsAfterPrefix(cpu)) THEN 0
                 ELSE NumberFormed(DigitsAfterPrefix(cpu))

\* "cpu<tab>: POWER9 (raw)": the digit before the blank is the generation
C27_Witness ==
    /\ parse_pc = "drafted"
    /\ reader = << LineProcessor, LineCpu9, LineBlank >>
    /\ proc_cpu_info[STR_cpu] = STR_POWER \o << "9", " ", "(", "r", "a", "w", ")" >>
    /\ linux_draft.generation = 9

\* ---------------------------------------------------------------- C28
\* the node set of a properly contains the node set of b
ProperlyContains(G, a, b) ==
    /\ NameAndAncestors(G, b) \subseteq NameAndAncestors(G, a)
    /\ NameAndAncestors(G, b) # NameAndAncestors(G, a)

\* C28: for two nodes a and b of a graph built from an acyclic catalog with
\* unique names these are equivalent: is_strict_superset(a, b); the node set of
\* a properly contains the node set of b; b is in ancestors(a);
\* a.decendent_of(b).
C28_StrictSupersetIsDescent ==
    call \in { "is_strict_superset", "decendent_of" } =>
      /\ ret = is_strict_superset(graph, this, arg)
      /\ ret = ProperlyContains(graph, this, arg)
      /\ ret = (arg \in SeqToSet(ancestors(graph, this)))
      /\ ret = (arg \in ProperAncestors(graph, this))
      /\ ret = decendent_of(graph, this, arg)

\* a descends from b through both of its parents, b not being one of them
C28_Witness ==
    /\ call = "decendent_of"
    /\ ret
    /\ Len(graph[this].parents) = 2
    /\ arg \notin SeqToSet(graph[this].parents)
    /\ \A i \in 1..2 : arg \in SeqToSet(graph[graph[this].parents[i]].parents)

\* ---------------------------------------------------------------- C29
\* the brand string the provider answers holds "Apple"
BrandHoldsApple ==
    sysctl.brand_string # ErrStr /\ contains(sysctl.brand_string, STR_Apple)

\* C29: in a detect run with OS macos, the sysctl provider answering each key
\* the same way every time, the non-x86 path never produces the model name
\* "unknown": the architecture is aarch64 only when the brand string holds
\* "Apple", and every such brand string selects the model "m2" or "m1".
C29_MacosModelNeverUnknown ==
    os = "macos" /\ DraftBuilt =>
      /\ arch \in { "aarch64", "x86_64" }
      /\ arch = "aarch64" <=> BrandHoldsApple
      /\ arch # "x86_64" =>
           /\ detected_arch.name \in { "m1", "m2" }
           /\ detected_arch.name # "unknown"

\* "Apple A9" names neither model and still selects m1
C29_Witness ==
    /\ os = "macos"
    /\ pc = "drafted"
    /\ sysctl.brand_string = BrandAppleA
    /\ arch = "aarch64"
    /\ detected_arch.name = "m1"
    /\ detected_arch.vendor = "Apple"

\* ---------------------------------------------------------------- C30
\* every visiting order of the table gives the feature set of this run
SameInEveryOrder ==
    \A order \in SetToSeqs(DOMAIN darwin_flags) :
      expand_aliases(darwin_flags, probed, order) = expanded

\* C30: on macOS x86_64 the feature set produced by alias expansion does not
\* depend on the order in which the pairs of the alias table are visited: for
\* every alias table and every set of probed tokens all visiting orders give
\* the same feature set, and every probed token is kept in it.
C30_AliasOrderIndependent ==
    alias_pc = "expanded" => SameInEveryOrder /\ probed \subseteq expanded

\* no canonical token of a pair is the macOS token of another pair
Unchained(table) ==
    \A k \in DOMAIN table : table[k] \cap (DOMAIN table \ { k }) = {}

\* for tables without such a chain the order does not matter
C30_AliasOrderIndependentUnchained ==
    alias_pc = "expanded" /\ Unchained(darwin_flags) =>
      SameInEveryOrder /\ probed \subseteq expanded

====
